---------------------------- MODULE Spec2Model ----------------------------
(***************************************************************************)
(* Model of the MongoDB code-generation evaluation harness:                *)
(*   - aggregateScores / getScoreCategory   (utils/averageScores.ts,       *)
(*     scorers/types.ts)                                                   *)
(*   - runCleanup / dropSearchIndex         (utils/cleanup.ts)             *)
(*   - runEvaluation / createEvalScorer     (harness/index.ts)             *)
(***************************************************************************)
EXTENDS Integers, Sequences, FiniteSets, TLC

(***************************************************************************)
(* Bounds of the model.                                                    *)
(***************************************************************************)
\* longest input sequence handed to aggregateScores
MaxLen == 3
\* number of eval cases handed to runEvaluation
NumCases == 2
\* poll iterations that fit into maxWaitSeconds (maxWaitMs / 2000 ms)
MaxPolls == 2
\* failures of external calls injected into one run
MaxFaults == 1
\* most lines of a generated code string
MaxLines == 2
\* the timeout of executeMongoDBCode (30000 ms by default), in ticks
TimeoutTicks == 2
\* most entries of expected.semantic.mustContain / mustNotContain
MaxPatterns == 2

(***************************************************************************)
(* Score names.  A name is a sequence of tokens, so that startsWith is a   *)
(* real prefix test: <<"Syntax", "_", "IsValidJS">> is "Syntax_IsValidJS". *)
(***************************************************************************)
\* the null score (not applicable), kept apart from the numbers 0 and 1
NULL == -1

StartsWith(s, p) ==
    /\ Len(s) >= Len(p)
    /\ SubSeq(s, 1, Len(p)) = p

\* getScoreCategory that files a name without a known prefix under semantic
getScoreCategory_unknownToSemantic(scoreName) ==
    IF StartsWith(scoreName, <<"Syntax", "_">>) THEN "syntax"
    ELSE IF StartsWith(scoreName, <<"Semantic", "_">>) THEN "semantic"
    ELSE IF StartsWith(scoreName, <<"Execution", "_">>) THEN "execution"
    ELSE IF StartsWith(scoreName, <<"Result", "_">>) THEN "result"
    ELSE "semantic"

\* scorers/types.ts: getScoreCategory
getScoreCategory(scoreName) ==
    IF StartsWith(scoreName, <<"Syntax", "_">>) THEN "syntax"
    ELSE IF StartsWith(scoreName, <<"Semantic", "_">>) THEN "semantic"
    ELSE IF StartsWith(scoreName, <<"Execution", "_">>) THEN "execution"
    ELSE IF StartsWith(scoreName, <<"Result", "_">>) THEN "result"
    ELSE "result"

\* the keys of byCategory, in the insertion order Object.entries walks them
CategoryOrder == <<"syntax", "semantic", "execution", "result">>

\* utils/averageScores.ts: capitalize, on the four category keys
capitalize(str) ==
    CASE str = "syntax" -> "Syntax"
      [] str = "semantic" -> "Semantic"
      [] str = "execution" -> "Execution"
      [] str = "result" -> "Result"
      [] OTHER -> str

(***************************************************************************)
(* Numbers.  A score is 0, 1 or null; an average is an exact fraction in   *)
(* lowest terms.                                                           *)
(***************************************************************************)
RECURSIVE Gcd(_, _)
Gcd(a, b) == IF b = 0 THEN a ELSE Gcd(b, a % b)

Frac(n, d) ==
    IF n = 0 THEN [num |-> 0, den |-> 1]
    ELSE [num |-> n \div Gcd(n, d), den |-> d \div Gcd(n, d)]

FracAdd(a, b) == Frac(a.num * b.den + b.num * a.den, a.den * b.den)

\* FracDivInt that leaves the sum undivided
FracDivInt_noDivide(a, k) == a

FracDivInt(a, k) == Frac(a.num, a.den * k)

\* reduce((sum, s) => sum + s.score, 0)
RECURSIVE SumScores(_)
SumScores(s) == IF s = <<>> THEN 0 ELSE Head(s).score + SumScores(Tail(s))

\* reduce((sum, avg) => sum + avg, 0)
RECURSIVE SumFracs(_)
SumFracs(s) == IF s = <<>> THEN Frac(0, 1) ELSE FracAdd(Head(s), SumFracs(Tail(s)))

\* categoryScores.map((s) => s.name)
SeqNames(s) == [i \in DOMAIN s |-> s[i].name]

\* ValidScores without the filter: null-scored entries are kept
ValidScores_keepNulls(s) == s

\* utils/averageScores.ts: lines 35-37, scores.filter((s) => s.score !== null)
RECURSIVE ValidScores(_)
ValidScores(s) ==
    IF s = <<>> THEN <<>>
    ELSE IF Head(s).score # NULL THEN <<Head(s)>> \o ValidScores(Tail(s))
    ELSE ValidScores(Tail(s))

\* utils/averageScores.ts: lines 40-50, byCategory[category] after the push loop
RECURSIVE ByCategory(_, _)
ByCategory(validScores, category) ==
    IF validScores = <<>> THEN <<>>
    ELSE IF getScoreCategory(Head(validScores).name) = category
         THEN <<Head(validScores)>> \o ByCategory(Tail(validScores), category)
         ELSE ByCategory(Tail(validScores), category)

\* CategoryEntries without the length test: an empty category counts as 0
RECURSIVE CategoryEntries_countEmpty(_, _)
CategoryEntries_countEmpty(validScores, cats) ==
    IF cats = <<>> THEN <<>>
    ELSE LET categoryScores == ByCategory(validScores, Head(cats))
         IN <<[name |-> <<capitalize(Head(cats))>>,
               score |-> IF Len(categoryScores) > 0
                         THEN Frac(SumScores(categoryScores), Len(categoryScores))
                         ELSE Frac(0, 1),
               count |-> Len(categoryScores),
               assertions |-> SeqNames(categoryScores)]>>
              \o CategoryEntries_countEmpty(validScores, Tail(cats))

\* utils/averageScores.ts: lines 56-70, the loop over Object.entries(byCategory)
RECURSIVE CategoryEntries(_, _)
CategoryEntries(validScores, cats) ==
    IF cats = <<>> THEN <<>>
    ELSE LET categoryScores == ByCategory(validScores, Head(cats))
             rest == CategoryEntries(validScores, Tail(cats))
         IN IF Len(categoryScores) > 0
            THEN <<[name |-> <<capitalize(Head(cats))>>,
                    score |-> Frac(SumScores(categoryScores), Len(categoryScores)),
                    count |-> Len(categoryScores),
                    assertions |-> SeqNames(categoryScores)]>> \o rest
            ELSE rest

\* aggregateScores with the overall compound taken over all individual scores
aggregateScores_flatMean(scores) ==
    LET validScores == ValidScores(scores)
        categories == CategoryEntries(validScores, CategoryOrder)
        overallScore ==
            IF Len(validScores) > 0
            THEN Frac(SumScores(validScores), Len(validScores))
            ELSE Frac(0, 1)
    IN [individual |-> validScores,
        categories |-> categories,
        compound |-> [name |-> <<"CompoundCodeGenScore">>,
                      score |-> overallScore,
                      categoryCount |-> Len(categories),
                      categories |-> SeqNames(categories)]]

\* utils/averageScores.ts: aggregateScores
aggregateScores(scores) ==
    LET validScores == ValidScores(scores)
        categories == CategoryEntries(validScores, CategoryOrder)
        categoryAverages == [i \in DOMAIN categories |-> categories[i].score]
        overallScore ==
            IF Len(categoryAverages) > 0
            THEN FracDivInt(SumFracs(categoryAverages), Len(categoryAverages))
            ELSE Frac(0, 1)
    IN [individual |-> validScores,
        categories |-> categories,
        compound |-> [name |-> <<"CompoundCodeGenScore">>,
                      score |-> overallScore,
                      categoryCount |-> Len(categoryAverages),
                      categories |-> SeqNames(categories)]]

\* harness/index.ts: createEvalScorer, the returned list
\* [...aggregated.individual, ...aggregated.categories, aggregated.compound]
ReturnedScores(agg) == agg.individual \o agg.categories \o <<agg.compound>>

(***************************************************************************)
(* Inputs of the aggregator.                                               *)
(***************************************************************************)
ScoreNames ==
    { <<"Syntax", "_", "IsValidJS">>,
      <<"Semantic", "_", "UsesCreate">>,
      <<"Execution", "_", "Succeeds">>,
      <<"Result", "_", "SearchIndexExists">>,
      <<"Custom", "Check">> }

ScoreValues == {0, 1, NULL}

ScoreResults == [name : ScoreNames, score : ScoreValues]

VARIABLES
    scores,     \* the flat ScoreResult sequence handed to aggregateScores
    aggregated  \* what aggregateScores returned for it

aggVars == <<scores, aggregated>>

(***************************************************************************)
(* State of one run of runEvaluation.                                      *)
(***************************************************************************)
VARIABLES
    cases,       \* evalCases: [case -> [exec, cleanup, skill]], see CaseKinds
    hasUri,      \* process.env.MONGODB_URI is set
    runState,    \* "Idle", "Running", "Done", "Aborted" (runEvaluation rejected)
    ip,          \* index of the current statement of runEvaluation in Program
    inPhase,     \* the current statement has started and not yet returned
    log,         \* phase events in the order they happened
    clCase,      \* cleanupAll: index of the case of the for loop
    dpc,         \* dropSearchIndex: position in the call ("idle" outside a call)
    dconn,       \* dropSearchIndex: connection of its MongoClient: "none",
                 \* "open", or "closeFailed" once its close() has thrown
    polls,       \* dropSearchIndex: poll iterations done (2 s each)
    dOutcome,    \* [case -> how its runCleanup call of the latest cleanupAll went]
    deletes,     \* [artifact -> delete requests issued by the dropSearchIndex call in progress]
    ext,         \* external system: [artifact -> "absent", "present", "deleting"]
    detached,    \* artifacts that generated code left running un-awaited may create
    taskSt,      \* Eval: [case -> "idle", "generating", "scoring", "failed"]
    scIdle,      \* Eval: [case -> scorers not yet started on the case's output]
    scExec,      \* Eval: [case -> scorers inside executeMongoDBCode]
    runs,        \* [approach index -> [case -> sandbox runs of the generated code]]
    compounds,   \* [approach index -> [case -> compound scores returned to Eval]]
    thrown,      \* <<approach index, case>> pairs whose task or scorer threw
    faults       \* failures injected so far

runVars ==
    <<cases, hasUri, runState, ip, inPhase, log, clCase, dpc, dconn,
      polls, dOutcome, deletes, ext, detached, taskSt, scIdle, scExec, runs,
      compounds, thrown, faults>>

(***************************************************************************)
(* The code handed to executeMongoDBCode and the code it executes.  A code *)
(* string is the sequence of its lines (split at "\n"), a line the         *)
(* sequence of its tokens: words, digits, punctuation and single spaces.   *)
(***************************************************************************)
VARIABLES
    code,       \* the generated code, as given to executeMongoDBCode
    processed   \* processedCode, the code placed into the async wrapper

rwVars == <<code, processed>>

(***************************************************************************)
(* State of one call of the scorer function built by createEvalScorer:     *)
(* executeMongoDBCode on the task output, then searchIndexExists.          *)
(***************************************************************************)
VARIABLES
    xpc,        \* position in the call ("idle" outside a call)
    xcase,      \* the case whose task output is scored (0 outside a call)
    gen,        \* the generated code, by what it does when it runs
    expct,      \* expected.result.searchIndexExists of the case
    elapsed,    \* executeMongoDBCode: time since startTime, in ticks
    caught,     \* executeMongoDBCode: the value that reached its catch block
    xres,       \* executionResult, as executeMongoDBCode returned it
    xrejected,  \* executeMongoDBCode rejected instead of returning
    xconn,      \* executeMongoDBCode: connection of its client: "none", "open",
                \* or "closeFailed" once its close() has thrown
    vconn,      \* searchIndexExists: connection of its client, likewise
    vconnects,  \* searchIndexExists: connects made in this call
    vlists,     \* searchIndexExists: listings taken in this call
    vdoc,       \* searchIndexExists: foundIndex (Undefined if none)
    vres        \* the ScoreResults searchIndexExists returned

callVars ==
    <<xpc, xcase, gen, expct, elapsed, caught, xres, xrejected, xconn, vconn,
      vconnects, vlists, vdoc, vres>>

(***************************************************************************)
(* The scorers that look at the text and the execution result only, run on *)
(* one ScorerContext by the scorer function of createEvalScorer.           *)
(***************************************************************************)
VARIABLES
    ctx,        \* the ScorerContext (output, expected, executionResult)
    scored,     \* the scorer function has run on ctx
    flat,       \* flatScores: the flattened results of allScorers
    returned    \* the list of scores the scorer function returns

assertVars == <<ctx, scored, flat, returned>>

(***************************************************************************)
(* State of one call of a task function (taskBaseline, taskWithDocs,       *)
(* taskWithSkill) on the input of a case.                                  *)
(***************************************************************************)
VARIABLES
    tpc,        \* position in the call ("idle" outside a call)
    approach,   \* the approach whose task function is called
    input,      \* TaskInput: docLink and skillFiles of the case
    maxChars,   \* DEFAULT_MAX_DOC_CHARS of this process
    response,   \* what fetch(input.docLink) gave
    docResult,  \* what fetchDocumentationWithInfo returned for it
    metadata,   \* hooks.metadata, as the task function filled it
    requests    \* the generation requests sent, in order

taskVars == <<tpc, approach, input, maxChars, response, docResult, metadata, requests>>

\* the variables the steps of a run leave alone
sideVars == <<aggVars, rwVars, callVars, assertVars, taskVars>>

vars == <<scores, aggregated, runVars, rwVars, callVars, assertVars, taskVars>>

(***************************************************************************)
(* JSON values: an atom (a boolean or a string) or an object, which is the *)
(* sequence of its members in insertion order.                             *)
(***************************************************************************)
Undefined == [kind |-> "undefined", atom |-> "", members |-> <<>>]

Atom(a) == [kind |-> "atom", atom |-> a, members |-> <<>>]

Obj(ms) == [kind |-> "object", atom |-> "", members |-> ms]

Member(k, v) == [key |-> k, val |-> v]

Keys(o) == {o.members[i].key : i \in DOMAIN o.members}

\* current[key] on an object; undefined if the object has no such member
Get(o, k) ==
    IF k \in Keys(o)
    THEN o.members[CHOOSE i \in DOMAIN o.members : o.members[i].key = k].val
    ELSE Undefined

\* path.split("."): the tokens of the path between the dots
RECURSIVE SplitDots(_)
SplitDots(path) ==
    IF path = <<>> THEN <<>>
    ELSE IF Head(path) = "." THEN SplitDots(Tail(path))
    ELSE <<Head(path)>> \o SplitDots(Tail(path))

\* key.replace(/\./g, "_")
ReplaceDots(path) == [i \in DOMAIN path |-> IF path[i] = "." THEN "_" ELSE path[i]]

\* searchIndexExists.ts: the reduce of getNestedValue over the path keys
RECURSIVE Reduce(_, _)
Reduce(current, keys) ==
    IF keys = <<>> THEN current
    ELSE Reduce(IF current.kind = "object" THEN Get(current, Head(keys))
                ELSE Undefined,
                Tail(keys))

\* searchIndexExists.ts: getNestedValue
getNestedValue(obj, path) == Reduce(obj, SplitDots(path))

\* JSON.stringify: the text of a value as a token sequence, the members of an
\* object in insertion order and without those whose value is undefined;
\* for undefined there is no text (<<>>)
RECURSIVE JSONstringify(_)
RECURSIVE StringifyMembers(_, _)
StringifyMembers(ms, first) ==
    IF ms = <<>> THEN <<>>
    ELSE IF Head(ms).val.kind = "undefined" THEN StringifyMembers(Tail(ms), first)
    ELSE (IF first THEN <<>> ELSE <<",">>)
            \o <<Head(ms).key, ":">> \o JSONstringify(Head(ms).val)
            \o StringifyMembers(Tail(ms), FALSE)

JSONstringify(v) ==
    CASE v.kind = "undefined" -> <<>>
      [] v.kind = "atom" -> <<v.atom>>
      [] OTHER -> <<"{">> \o StringifyMembers(v.members, TRUE) \o <<"}">>

\* searchIndexExists.ts: line 93,
\* JSON.stringify(actualValue) === JSON.stringify(expectedValue)
matches(actualValue, expectedValue) ==
    JSONstringify(actualValue) = JSONstringify(expectedValue)


(***************************************************************************)
(* Inputs of a scorer call: the generated code, the expectation of the     *)
(* case and the index document the external system lists.                  *)
(***************************************************************************)
\* a value thrown by the generated code or by the executor's own calls
Thrown(kind, message) == [kind |-> kind, message |-> message]

NothingThrown == Thrown("none", <<>>)

\* code-executor.ts: line 146, the message of the error sandbox.require throws
RequireMessage(module) == <<"Module '", module, "' is not allowed in sandbox">>

\* the generated code: its requires, an async function that does the work,
\* and a final line that calls the function; by what it does when it runs:
\*   syntax   - it parses
\*   req      - the module its first statement requires ("none": no require)
\*   swallows - its body sits in a try/catch that logs and goes on
\*   sync     - "short", or "loop": it never leaves its first synchronous part
\*   async    - "settles", or "never": the function awaits a promise that
\*              never settles
\*   throws   - the value the function throws, or NothingThrown
\*   creates  - the function creates the search index
\*   tail     - the final line of the code
GoodCode ==
    [syntax |-> TRUE, req |-> "mongodb", swallows |-> FALSE, sync |-> "short",
     async |-> "settles", throws |-> NothingThrown, creates |-> TRUE,
     tail |-> <<"runIt", "(", ")", ";">>]

GeneratedCodes ==
    { GoodCode,
      [GoodCode EXCEPT !.syntax = FALSE],
      [GoodCode EXCEPT !.req = "fs", !.creates = FALSE],
      [GoodCode EXCEPT !.req = "fs", !.swallows = TRUE, !.creates = FALSE],
      [GoodCode EXCEPT !.throws = Thrown("Error", <<"boom">>), !.creates = FALSE],
      [GoodCode EXCEPT !.throws = Thrown("Error", <<>>), !.creates = FALSE],
      [GoodCode EXCEPT !.throws = Thrown("string", <<"boom">>), !.creates = FALSE],
      [GoodCode EXCEPT !.throws = Thrown("null", <<>>), !.creates = FALSE],
      [GoodCode EXCEPT !.sync = "loop", !.creates = FALSE],
      [GoodCode EXCEPT !.async = "never", !.creates = FALSE],
      [GoodCode EXCEPT !.tail = <<"runIt", "(", "x", ")", ";">>] }

\* code-executor.ts: ExecutionResult; time is executionTime in ticks, NoTime
\* when the field is missing
NoTime == -1

ExecutionResult(success, error, time) ==
    [defined |-> TRUE, success |-> success, error |-> error, time |-> time]

\* executionResult of a scorer context when the code was not executed
NoExecutionResult ==
    [defined |-> FALSE, success |-> FALSE, error |-> <<>>, time |-> NoTime]

\* expected.result.searchIndexExists: declared or not, and its config as the
\* sequence of its entries [key (a dot path), val]
Expectation(declared, config) == [declared |-> declared, config |-> config]

DynamicPath == <<"mappings", ".", "dynamic">>

AnalyzerPath == <<"mappings", ".", "analyzer">>

Expectations ==
    { Expectation(FALSE, <<>>),
      Expectation(TRUE, <<>>),
      Expectation(TRUE, <<Member(DynamicPath, Atom("true"))>>),
      Expectation(TRUE, <<Member(DynamicPath, Atom("true")),
                          Member(AnalyzerPath, Atom("std"))>>),
      Expectation(TRUE, <<Member(<<"mappings">>,
                                 Obj(<<Member("dynamic", Atom("true")),
                                       Member("analyzer", Atom("std"))>>))>>) }

\* the documents listSearchIndexes may return for the index
IndexDocs ==
    { Obj(<<Member("name", Atom("idx_a")),
            Member("mappings", Obj(<<Member("dynamic", Atom("true"))>>))>>),
      Obj(<<Member("name", Atom("idx_a")),
            Member("mappings", Obj(<<Member("dynamic", Atom("false"))>>))>>),
      Obj(<<Member("name", Atom("idx_a")),
            Member("mappings", Obj(<<Member("dynamic", Atom("true")),
                                     Member("analyzer", Atom("std"))>>))>>),
      Obj(<<Member("name", Atom("idx_a")),
            Member("mappings", Obj(<<Member("analyzer", Atom("std")),
                                     Member("dynamic", Atom("true"))>>))>>),
      Obj(<<Member("name", Atom("idx_a"))>>) }

\* scorers/types.ts: ScoreResult, with the kind of metadata it carries
ScoreResult(name, score, meta) == [name |-> name, score |-> score, meta |-> meta]

ExistsName == <<"Result", "_", "SearchIndexExists">>

\* searchIndexExists.ts: line 96, `Result_SearchIndexConfig_${key.replace(...)}`
ConfigName(key) == <<"Result", "_", "SearchIndexConfig", "_">> \o ReplaceDots(key)

\* searchIndexExists.ts: lines 25-27, the single not-applicable result
NotApplied == <<ScoreResult(ExistsName, NULL, "none")>>

\* the state outside a scorer call
IdleCall ==
    /\ xpc = "idle"
    /\ xcase = 0
    /\ gen = GoodCode
    /\ expct = Expectation(FALSE, <<>>)
    /\ elapsed = 0
    /\ caught = NothingThrown
    /\ xres = NoExecutionResult
    /\ xrejected = FALSE
    /\ xconn = "none"
    /\ vconn = "none"
    /\ vconnects = 0
    /\ vlists = 0
    /\ vdoc = Undefined
    /\ vres = <<>>

(***************************************************************************)
(* isValidJS, hasAsyncAwait, mustContain, mustNotContain and succeeds.  A  *)
(* text is the sequence of its characters, a keyword counting as one.      *)
(***************************************************************************)
\* String.prototype.includes: pattern occurs in text as a contiguous part
includes(text, pattern) ==
    \E i \in 0..(Len(text) - Len(pattern)) :
       SubSeq(text, i + 1, i + Len(pattern)) = pattern

\* schemas/evalCase.ts: PatternSchema
Pattern(pattern, name) == [pattern |-> pattern, name |-> name]

\* expected.semantic.mustContain / mustNotContain: absent, or a list
PatternList(present, list) == [present |-> present, list |-> list]

NoPatterns == PatternList(FALSE, <<>>)

\* scorers/syntax/isValidJS.ts; parses is what acorn.parse makes of output
isValidJS(context) ==
    IF ~context.expected.isValidJS
    THEN ScoreResult(<<"Syntax", "_", "IsValidJS">>, NULL, "none")
    ELSE IF context.parses
         THEN ScoreResult(<<"Syntax", "_", "IsValidJS">>, 1, "parsed")
         ELSE ScoreResult(<<"Syntax", "_", "IsValidJS">>, 0, "error")

\* scorers/syntax/hasAsyncAwait.ts: /\basync\b/ and /\bawait\b/ on output
hasAsyncAwait(context) ==
    IF ~context.expected.hasAsyncAwait
    THEN ScoreResult(<<"Syntax", "_", "HasAsyncAwait">>, NULL, "none")
    ELSE IF includes(context.output, <<"async">>) /\ includes(context.output, <<"await">>)
         THEN ScoreResult(<<"Syntax", "_", "HasAsyncAwait">>, 1, "found")
         ELSE ScoreResult(<<"Syntax", "_", "HasAsyncAwait">>, 0, "reason")

\* mustContain that scores the whole list as one result
mustContain_oneAggregate(context) ==
    LET patterns == context.expected.mustContain
    IN IF ~patterns.present \/ Len(patterns.list) = 0
       THEN <<ScoreResult(<<"Semantic", "_", "MustContain">>, NULL, "none")>>
       ELSE <<ScoreResult(<<"Semantic", "_", "MustContain">>,
                          IF \A i \in DOMAIN patterns.list :
                                includes(context.output, patterns.list[i].pattern)
                          THEN 1 ELSE 0,
                          "pattern")>>

\* scorers/semantic/mustContain.ts
mustContain(context) ==
    LET patterns == context.expected.mustContain
    IN IF ~patterns.present \/ Len(patterns.list) = 0
       THEN <<ScoreResult(<<"Semantic", "_", "MustContain">>, NULL, "none")>>
       ELSE [i \in DOMAIN patterns.list |->
                ScoreResult(<<"Semantic", "_", patterns.list[i].name>>,
                            IF includes(context.output, patterns.list[i].pattern)
                            THEN 1 ELSE 0,
                            "pattern")]

\* scorers/semantic/mustNotContain.ts
mustNotContain(context) ==
    LET patterns == context.expected.mustNotContain
    IN IF ~patterns.present \/ Len(patterns.list) = 0
       THEN <<ScoreResult(<<"Semantic", "_", "MustNotContain">>, NULL, "none")>>
       ELSE [i \in DOMAIN patterns.list |->
                ScoreResult(<<"Semantic", "_", patterns.list[i].name>>,
                            IF includes(context.output, patterns.list[i].pattern)
                            THEN 0 ELSE 1,
                            "pattern")]

\* succeeds that treats a missing execution result as not applicable
succeeds_nullWhenAbsent(context) ==
    IF context.expected.shouldSucceed # "true"
    THEN ScoreResult(<<"Execution", "_", "Succeeds">>, NULL, "none")
    ELSE IF ~context.executionResult.defined
         THEN ScoreResult(<<"Execution", "_", "Succeeds">>, NULL, "none")
    ELSE IF context.executionResult.success
         THEN ScoreResult(<<"Execution", "_", "Succeeds">>, 1, "output")
    ELSE ScoreResult(<<"Execution", "_", "Succeeds">>, 0, "error")

\* scorers/execution/succeeds.ts; shouldSucceed is "absent", "true" or "false"
succeeds(context) ==
    IF context.expected.shouldSucceed # "true"
    THEN ScoreResult(<<"Execution", "_", "Succeeds">>, NULL, "none")
    ELSE IF ~context.executionResult.defined
         THEN ScoreResult(<<"Execution", "_", "Succeeds">>, 0, "error")
    ELSE IF context.executionResult.success
         THEN ScoreResult(<<"Execution", "_", "Succeeds">>, 1, "output")
    ELSE ScoreResult(<<"Execution", "_", "Succeeds">>, 0, "error")

\* scorers/index.ts: allScorers, each run on the context, and
\* utils/averageScores.ts: flattenScores; verified is what searchIndexExists
\* returned for the context
flattenScores(context) ==
    <<isValidJS(context), hasAsyncAwait(context)>>
       \o mustContain(context) \o mustNotContain(context)
       \o <<succeeds(context)>> \o context.verified

\* the generated texts
Outputs ==
    { <<"a", "b", "c">>,
      <<"async", " ", "x", ".", "a", ".", "c", " ", "await">> }

\* the pattern entries of a case: "a.c", "b" and "c.", two of them under
\* one name
Patterns ==
    { Pattern(<<"a", ".", "c">>, "UsesA"),
      Pattern(<<"b">>, "UsesB"),
      Pattern(<<"c", ".">>, "UsesA") }

\* lists of at most n pattern entries
RECURSIVE PatternSeqs(_)
PatternSeqs(n) ==
    IF n = 0 THEN {<<>>}
    ELSE PatternSeqs(n - 1)
           \cup {Append(l, e) : l \in {q \in PatternSeqs(n - 1) : Len(q) = n - 1},
                                e \in Patterns}

PatternLists ==
    {NoPatterns} \cup {PatternList(TRUE, l) : l \in PatternSeqs(MaxPatterns)}

\* what searchIndexExists may have returned for the context
VerifierResults ==
    { NotApplied,
      <<ScoreResult(ExistsName, 0, "reason")>>,
      <<ScoreResult(ExistsName, 1, "found"),
        ScoreResult(ConfigName(DynamicPath), 1, "config")>> }

\* contexts of every shape of expected and executionResult
ContextShapes ==
    [ output : Outputs,
      parses : BOOLEAN,
      expected : [ isValidJS : BOOLEAN,
                   hasAsyncAwait : BOOLEAN,
                   mustContain : PatternLists,
                   mustNotContain : PatternLists,
                   shouldSucceed : {"absent", "true", "false"} ],
      executionResult : { NoExecutionResult,
                          ExecutionResult(TRUE, <<>>, 0),
                          ExecutionResult(FALSE, <<"boom">>, 0) },
      verified : VerifierResults ]

\* the contexts a scorer function may be called with; whether the output
\* parses is drawn only where isValidJS is expected
Contexts == {c \in ContextShapes : ~c.expected.isValidJS => c.parses}

\* a context that expects nothing
EmptyContext ==
    [ output |-> <<>>,
      parses |-> TRUE,
      expected |-> [ isValidJS |-> FALSE,
                     hasAsyncAwait |-> FALSE,
                     mustContain |-> NoPatterns,
                     mustNotContain |-> NoPatterns,
                     shouldSucceed |-> "absent" ],
      executionResult |-> NoExecutionResult,
      verified |-> NotApplied ]

\* the state outside the run of the scorers on a context
IdleAssert ==
    /\ ctx = EmptyContext
    /\ scored = FALSE
    /\ flat = <<>>
    /\ returned = <<>>

(***************************************************************************)
(* The task functions: fetch-documentation.ts, read-skill-file.ts and      *)
(* taskBaseline, taskWithDocs, taskWithSkill of harness/index.ts.  Text is *)
(* a string; its length is its number of characters.                       *)
(***************************************************************************)
\* the longest document a fetch returns
MaxDocLen == 4

\* the largest DEFAULT_MAX_DOC_CHARS
MaxDocChars == 2

\* String.prototype.slice(0, end) for 0 <= end
slice(text, end) ==
    IF end >= Len(text) THEN text ELSE SubSeq(text, 1, end)

\* Array.prototype.join
RECURSIVE join(_, _)
join(contents, separator) ==
    IF Len(contents) = 0 THEN ""
    ELSE IF Len(contents) = 1 THEN contents[1]
    ELSE contents[1] \o separator \o join(Tail(contents), separator)

FetchDocumentationResult(content, originalLength, wasTruncated, charsTruncated) ==
    [ content |-> content,
      originalLength |-> originalLength,
      wasTruncated |-> wasTruncated,
      charsTruncated |-> charsTruncated ]

NoDocResult == FetchDocumentationResult("", 0, FALSE, 0)

\* what fetch(url) can give: a rejection, a response that is not ok, or a
\* response with a text
FetchFailed == [kind |-> "failed", text |-> ""]

NotOk == [kind |-> "notOk", text |-> ""]

FetchedText(text) == [kind |-> "ok", text |-> text]

NoResponse == [kind |-> "none", text |-> ""]

Documents == {SubSeq("qrstuvwxyz", 1, n) : n \in 0..MaxDocLen}

Responses == {FetchFailed, NotOk} \cup {FetchedText(d) : d \in Documents}

DocUrl == "https://docs/page.md"

\* fetch-documentation.ts: fetchDocumentationWithInfo, given what fetch gave
fetchDocumentationWithInfo(url, fetched, max) ==
    IF fetched.kind # "ok"
    THEN FetchDocumentationResult(
            "[Documentation could not be loaded from " \o url \o "]", 0, FALSE, 0)
    ELSE LET fullContent == fetched.text
             originalLength == Len(fullContent)
         IN IF originalLength > max
            THEN LET truncatedContent == slice(fullContent, max)
                     charsTruncated == originalLength - max
                 IN FetchDocumentationResult(
                       truncatedContent \o "\n\n[... truncated "
                          \o ToString(charsTruncated) \o " characters ...]",
                       originalLength, TRUE, charsTruncated)
            ELSE FetchDocumentationResult(fullContent, originalLength, FALSE, 0)

\* input.skillFiles: absent, one path, or an array of paths
NoSkillFiles == [kind |-> "absent", paths |-> <<>>]

OnePath(path) == [kind |-> "string", paths |-> <<path>>]

PathArray(paths) == [kind |-> "array", paths |-> paths]

\* the skill files on disk and their content
Files == [p \in {"a.md", "b.md"} |-> IF p = "a.md" THEN "use A" ELSE "use B"]

SkillFilesValues ==
    { NoSkillFiles, OnePath(""), OnePath("a.md"), OnePath("gone.md"),
      PathArray(<<>>), PathArray(<<"a.md">>), PathArray(<<"a.md", "b.md">>),
      PathArray(<<"gone.md", "b.md">>) }

\* !input.skillFiles: undefined and the empty string are falsy, an array is
\* truthy whatever its length
Falsy(skillFiles) ==
    \/ skillFiles.kind = "absent"
    \/ skillFiles.kind = "string" /\ skillFiles.paths[1] = ""

\* read-skill-file.ts: readSkillFile
readSkillFile(filePath) ==
    IF filePath \in DOMAIN Files
    THEN Files[filePath]
    ELSE "[Skill file could not be loaded from " \o filePath \o "]"

\* read-skill-file.ts: readSkillFiles
readSkillFiles(filePaths) ==
    join([i \in DOMAIN filePaths.paths |-> readSkillFile(filePaths.paths[i])],
         "\n\n")

\* TaskInput of a case, and whether Eval passes hooks to the task; a
\* docLink of "" stands for a case without docLink
TaskInputs ==
    [ prompt : {"create an index"},
      docLink : {"", DocUrl},
      skillFiles : SkillFilesValues,
      hooks : BOOLEAN ]

NoInput ==
    [prompt |-> "", docLink |-> "", skillFiles |-> NoSkillFiles, hooks |-> FALSE]

\* the fixed texts of the prompts, by their first sentence
BASELINE_SYSTEM_PROMPT == "You are a helpful coding assistant. ..."

SkillPromptHead == "You are a MongoDB expert assistant. ..."

Request(system, user) == [system |-> system, user |-> user]

\* harness/index.ts: enhancedPrompt of taskWithDocs
enhancedPrompt(prompt, content) ==
    prompt \o "\n\nUse the following MongoDB documentation as reference:\n\n"
           \o content

\* harness/index.ts: systemPrompt of taskWithSkill
systemPrompt(skillContent) == SkillPromptHead \o "\n\n" \o skillContent

\* hooks.metadata: the fields the task functions set
NoMetadata ==
    [ generationModel |-> FALSE,
      docRecorded |-> FALSE,
      docContentLength |-> 0,
      docOriginalLength |-> 0,
      docWasTruncated |-> FALSE,
      docCharsTruncated |-> 0,
      docsTruncationWarning |-> FALSE,
      skillRecorded |-> FALSE,
      skillContent |-> "" ]

IdleTask ==
    /\ tpc = "idle"
    /\ approach = "Baseline"
    /\ input = NoInput
    /\ maxChars = 0
    /\ response = NoResponse
    /\ docResult = NoDocResult
    /\ metadata = NoMetadata
    /\ requests = <<>>

\* words that may start an identifier ([a-zA-Z_]), and words of [a-zA-Z0-9_]
IdStartWords == {"runIt", "run", "obj", "x", "await"}

IdPartWords == IdStartWords \cup {"1"}

\* String.prototype.trim on one line: leading and trailing spaces go
RECURSIVE TrimLeft(_)
TrimLeft(l) == IF l # <<>> /\ Head(l) = " " THEN TrimLeft(Tail(l)) ELSE l

RECURSIVE TrimRight(_)
TrimRight(l) ==
    IF l # <<>> /\ l[Len(l)] = " " THEN TrimRight(SubSeq(l, 1, Len(l) - 1)) ELSE l

TrimLine(l) == TrimRight(TrimLeft(l))

\* a line of white space only
IsBlank(l) == \A i \in DOMAIN l : l[i] = " "

RECURSIVE DropLeadingBlank(_)
DropLeadingBlank(c) ==
    IF Len(c) > 1 /\ IsBlank(Head(c)) THEN DropLeadingBlank(Tail(c)) ELSE c

RECURSIVE DropTrailingBlank(_)
DropTrailingBlank(c) ==
    IF Len(c) > 1 /\ IsBlank(c[Len(c)])
    THEN DropTrailingBlank(SubSeq(c, 1, Len(c) - 1)) ELSE c

\* code-executor.ts: line 169, code.trim(), on a string with line breaks:
\* blank lines at both ends go, the first line loses its leading and the last
\* line its trailing white space
TrimCode(c) ==
    LET b == DropTrailingBlank(DropLeadingBlank(c))
    IN [i \in DOMAIN b |->
          IF Len(b) = 1 THEN TrimLine(b[i])
          ELSE IF i = 1 THEN TrimLeft(b[i])
          ELSE IF i = Len(b) THEN TrimRight(b[i])
          ELSE b[i]]

\* code-executor.ts: line 171, /^[a-zA-Z_][a-zA-Z0-9_]*\(\s*\);?\s*$/.test(l)
MatchesBareCall(l) ==
    \E i, j \in DOMAIN l :
       /\ i >= 2
       /\ j > i
       /\ l[1] \in IdStartWords
       /\ \A k \in 2..(i - 1) : l[k] \in IdPartWords
       /\ l[i] = "("
       /\ \A k \in (i + 1)..(j - 1) : l[k] = " "
       /\ l[j] = ")"
       /\ LET rest == SubSeq(l, j + 1, Len(l))
          IN \/ IsBlank(rest)
             \/ rest # <<>> /\ Head(rest) = ";" /\ IsBlank(Tail(rest))

\* code-executor.ts: line 170, trimmedCode.split('\n').pop()?.trim() || ''
LastLine(c) == LET t == TrimCode(c) IN TrimLine(t[Len(t)])

\* isUnawaitedCall that takes every line ending in a call for a bare call
isUnawaitedCall_anyCallee(c) ==
    LET l == LastLine(c)
    IN /\ \E i \in DOMAIN l : l[i] = "("
       /\ \E j \in DOMAIN l :
             /\ l[j] = ")"
             /\ SubSeq(l, j + 1, Len(l)) \in {<<>>, <<";">>}
       /\ ~StartsWith(l, <<"await", " ">>)

\* code-executor.ts: line 171, isUnawaitedCall
isUnawaitedCall(c) ==
    /\ MatchesBareCall(LastLine(c))
    /\ ~StartsWith(LastLine(c), <<"await", " ">>)

\* code-executor.ts: lines 173-180, processedCode
processedCode(c) ==
    IF isUnawaitedCall(c)
    THEN LET lines == TrimCode(c)
         IN [lines EXCEPT ![Len(lines)] = <<"await", " ">> \o @]
    ELSE c

\* lines of generated code: bare calls, with and without semicolon, white
\* space and await; calls that are not bare; other statements; blank lines
Lines ==
    { <<"runIt", "(", ")", ";">>,
      <<"runIt", "(", ")">>,
      <<"await", " ", "runIt", "(", ")", ";">>,
      <<" ", " ", "runIt", "(", ")", ";">>,
      <<"runIt", "(", " ", ")", ";", " ">>,
      <<"run", "1", "(", ")", ";">>,
      <<"1", "run", "(", ")", ";">>,
      <<"obj", ".", "run", "(", ")", ";">>,
      <<"runIt", "(", "x", ")", ";">>,
      <<" ", "}">>,
      <<>>,
      <<" ">> }

\* the empty code string
NoCode == << <<>> >>

Cases == 1..NumCases

Artifacts == {"idx_a", "idx_b"}

NoCleanup == "none"

\* runEvaluation without the cleanup between the first two approaches
Program_noInterCleanup ==
    <<"cleanupAll", "Baseline", "With Docs", "cleanupAll", "With Skill", "cleanupAll">>

\* harness/index.ts: runEvaluation, its awaited statements in program order
Program ==
    <<"cleanupAll", "Baseline", "cleanupAll", "With Docs", "cleanupAll",
      "With Skill", "cleanupAll">>

Approaches == {"Baseline", "With Docs", "With Skill"}

\* harness/index.ts: scorers = evalCases.map((evalCase) => createEvalScorer(evalCase))
NumScorers == NumCases

\* schemas/evalCase.ts: what the harness reads of an EvalCase:
\*   exec    - expected.execution.shouldSucceed or expected.result is set
\*   cleanup - cleanup.dropSearchIndex.indexName, or NoCleanup
\*   skill   - input.skillFiles is set
\* a case that creates the search index "idx_a" and cleans it up
IndexCase == [exec |-> TRUE, cleanup |-> "idx_a", skill |-> TRUE]

\* a case with syntax and semantic expectations only, and no skill file
SyntaxOnlyCase == [exec |-> FALSE, cleanup |-> NoCleanup, skill |-> FALSE]

\* the case files of a run: one index case followed by syntax-only cases, or
\* two index cases naming the same search index followed by syntax-only cases
Configs ==
    { [c \in Cases |-> IF c = 1 THEN IndexCase ELSE SyntaxOnlyCase],
      [c \in Cases |-> IF c <= 2 THEN IndexCase ELSE SyntaxOnlyCase] }

Event(kind, what, c) == [kind |-> kind, what |-> what, case |-> c]

\* the state before runEvaluation is called, for one configuration
IdleRun(cs, u, x) ==
    /\ cases = cs
    /\ hasUri = u
    /\ runState = "Idle"
    /\ ip = 1
    /\ inPhase = FALSE
    /\ log = <<>>
    /\ clCase = 0
    /\ dpc = "idle"
    /\ dconn = "none"
    /\ polls = 0
    /\ dOutcome = [c \in Cases |-> "none"]
    /\ deletes = [y \in Artifacts |-> 0]
    /\ ext = x
    /\ detached = {}
    /\ taskSt = [c \in Cases |-> "idle"]
    /\ scIdle = [c \in Cases |-> 0]
    /\ scExec = [c \in Cases |-> 0]
    /\ runs = [i \in DOMAIN Program |-> [c \in Cases |-> 0]]
    /\ compounds = [i \in DOMAIN Program |-> [c \in Cases |-> 0]]
    /\ thrown = {}
    /\ faults = 0

InitRun ==
    \E cs \in Configs,
       u \in BOOLEAN,
       left \in {"absent", "present"} :
          IdleRun(cs, u, [y \in Artifacts |-> IF y = "idx_a" THEN left ELSE "present"])

InitAgg ==
    /\ scores = <<>>
    /\ aggregated = aggregateScores(<<>>)
    /\ code = NoCode
    /\ processed = processedCode(NoCode)
    /\ IdleCall
    /\ IdleAssert
    /\ IdleTask
    /\ IdleRun([c \in Cases |-> SyntaxOnlyCase], FALSE,
               [y \in Artifacts |-> "absent"])

\* a scorer result is appended to the flat list and the list is aggregated
AggregateMore ==
    /\ Len(scores) < MaxLen
    /\ \E s \in ScoreResults :
          /\ scores' = Append(scores, s)
          /\ aggregated' = aggregateScores(scores')
    /\ UNCHANGED <<runVars, rwVars, callVars, assertVars, taskVars>>

NextAgg == AggregateMore

SpecAgg == InitAgg /\ [][NextAgg]_vars

(***************************************************************************)
(* executeMongoDBCode: the rewrite of the code before it is wrapped.       *)
(***************************************************************************)
InitRewrite ==
    /\ \E l \in Lines : code = <<l>>
    /\ processed = processedCode(code)
    /\ IdleCall
    /\ IdleAssert
    /\ IdleTask
    /\ scores = <<>>
    /\ aggregated = aggregateScores(<<>>)
    /\ IdleRun([c \in Cases |-> SyntaxOnlyCase], FALSE,
               [y \in Artifacts |-> "absent"])

\* one more line of generated code; the executor rewrites the longer code
MoreCode ==
    /\ Len(code) < MaxLines
    /\ \E l \in Lines :
          /\ code' = Append(code, l)
          /\ processed' = processedCode(code')
    /\ UNCHANGED <<aggVars, runVars, callVars, assertVars, taskVars>>

NextRewrite == MoreCode

SpecRewrite == InitRewrite /\ [][NextRewrite]_vars

(***************************************************************************)
(* createEvalScorer: the scorers run on a context and their results are    *)
(* flattened, aggregated and returned.                                     *)
(***************************************************************************)
InitAssert ==
    /\ ctx \in Contexts
    /\ scored = FALSE
    /\ flat = <<>>
    /\ returned = <<>>
    /\ scores = <<>>
    /\ aggregated = aggregateScores(<<>>)
    /\ code = NoCode
    /\ processed = processedCode(NoCode)
    /\ IdleCall
    /\ IdleTask
    /\ IdleRun([c \in Cases |-> SyntaxOnlyCase], FALSE,
               [y \in Artifacts |-> "absent"])

\* harness/index.ts: lines 726-745, every scorer of allScorers runs on the
\* context; the results are flattened and aggregated, and the individual
\* scores, the category compounds and the overall compound are returned
ScoreContext ==
    /\ ~scored
    /\ scored' = TRUE
    /\ flat' = flattenScores(ctx)
    /\ returned' = ReturnedScores(aggregateScores(flattenScores(ctx)))
    /\ UNCHANGED <<ctx, aggVars, runVars, rwVars, callVars, taskVars>>

NextAssert == ScoreContext

SpecAssert == InitAssert /\ [][NextAssert]_vars

(***************************************************************************)
(* One call of the task function of an approach on the input of a case.    *)
(***************************************************************************)
InitTask ==
    /\ tpc = "start"
    /\ approach \in Approaches
    /\ input \in TaskInputs
    /\ maxChars \in 0..MaxDocChars
    /\ response = NoResponse
    /\ docResult = NoDocResult
    /\ metadata = NoMetadata
    /\ requests = <<>>
    /\ scores = <<>>
    /\ aggregated = aggregateScores(<<>>)
    /\ code = NoCode
    /\ processed = processedCode(NoCode)
    /\ IdleCall
    /\ IdleAssert
    /\ IdleRun([c \in Cases |-> SyntaxOnlyCase], FALSE,
               [y \in Artifacts |-> "absent"])

TaskFrame == UNCHANGED <<aggVars, runVars, rwVars, callVars, assertVars>>

\* harness/index.ts: taskBaseline up to its await of the generation call;
\* taskWithDocs calls it when the case has no docLink
taskBaseline ==
    /\ metadata' = IF input.hooks
                   THEN [metadata EXCEPT !.generationModel = TRUE]
                   ELSE metadata
    /\ requests' = Append(requests, Request(BASELINE_SYSTEM_PROMPT, input.prompt))
    /\ tpc' = "generating"
    /\ UNCHANGED <<approach, input, maxChars, response, docResult>>

CallBaseline ==
    /\ tpc = "start"
    /\ approach = "Baseline"
    /\ taskBaseline
    /\ TaskFrame

\* harness/index.ts: taskWithDocs up to its first await
CallWithDocs ==
    /\ tpc = "start"
    /\ approach = "With Docs"
    /\ IF input.docLink = ""
       THEN taskBaseline
       ELSE /\ tpc' = "fetching"
            /\ UNCHANGED <<approach, input, maxChars, response, docResult,
                           metadata, requests>>
    /\ TaskFrame

\* harness/index.ts: taskWithDocs from the return of
\* fetchDocumentationWithInfo to its await of the generation call
FetchReturns ==
    /\ tpc = "fetching"
    /\ \E fetched \in Responses :
          LET result == fetchDocumentationWithInfo(input.docLink, fetched, maxChars)
          IN /\ response' = fetched
             /\ docResult' = result
             /\ metadata' =
                   IF input.hooks
                   THEN [metadata EXCEPT
                           !.docRecorded = TRUE,
                           !.docContentLength = Len(result.content),
                           !.docOriginalLength = result.originalLength,
                           !.docWasTruncated = result.wasTruncated,
                           !.docCharsTruncated = result.charsTruncated,
                           !.generationModel = TRUE,
                           !.docsTruncationWarning = result.wasTruncated]
                   ELSE metadata
             /\ requests' = Append(requests,
                               Request(BASELINE_SYSTEM_PROMPT,
                                       enhancedPrompt(input.prompt, result.content)))
    /\ tpc' = "generating"
    /\ UNCHANGED <<approach, input, maxChars>>
    /\ TaskFrame

\* harness/index.ts: taskWithSkill up to its first await
CallWithSkill ==
    /\ tpc = "start"
    /\ approach = "With Skill"
    /\ tpc' = IF Falsy(input.skillFiles) THEN "threw" ELSE "reading"
    /\ UNCHANGED <<approach, input, maxChars, response, docResult, metadata, requests>>
    /\ TaskFrame

\* harness/index.ts: taskWithSkill from the return of readSkillFiles to its
\* await of the generation call
SkillsRead ==
    /\ tpc = "reading"
    /\ LET skillContent == readSkillFiles(input.skillFiles)
       IN /\ metadata' = IF input.hooks
                         THEN [metadata EXCEPT !.skillRecorded = TRUE,
                                               !.skillContent = skillContent,
                                               !.generationModel = TRUE]
                         ELSE metadata
          /\ requests' = Append(requests,
                                Request(systemPrompt(skillContent), input.prompt))
    /\ tpc' = "generating"
    /\ UNCHANGED <<approach, input, maxChars, response, docResult>>
    /\ TaskFrame

\* the generation call answers and the task function returns the text
GenerationResponds ==
    /\ tpc = "generating"
    /\ tpc' = "returned"
    /\ UNCHANGED <<approach, input, maxChars, response, docResult, metadata, requests>>
    /\ TaskFrame

\* the generation call rejects and so does the task function
GenerationFails ==
    /\ tpc = "generating"
    /\ tpc' = "threw"
    /\ UNCHANGED <<approach, input, maxChars, response, docResult, metadata, requests>>
    /\ TaskFrame

NextTask ==
    \/ CallBaseline
    \/ CallWithDocs
    \/ FetchReturns
    \/ CallWithSkill
    \/ SkillsRead
    \/ GenerationResponds
    \/ GenerationFails

SpecTask == InitTask /\ [][NextTask]_vars

(***************************************************************************)
(* runEvaluation: cleanupAll, runCleanup and dropSearchIndex.              *)
(***************************************************************************)
Init ==
    /\ scores = <<>>
    /\ aggregated = aggregateScores(<<>>)
    /\ code = NoCode
    /\ processed = processedCode(NoCode)
    /\ IdleCall
    /\ IdleAssert
    /\ IdleTask
    /\ InitRun

CanFail == faults < MaxFaults

\* the current statement of runEvaluation
Stmt == IF ip \in DOMAIN Program THEN Program[ip] ELSE "return"

\* harness/index.ts: runEvaluation is called
RunStart ==
    /\ runState = "Idle"
    /\ runState' = "Running"
    /\ UNCHANGED <<cases, hasUri, dconn, ip, inPhase, log, clCase,
                   dpc, polls, dOutcome, deletes, ext, detached, taskSt,
                   scIdle, scExec, runs, compounds, thrown, faults>>
    /\ UNCHANGED sideVars

\* harness/index.ts: await cleanupAll() is entered
CleanupAllStart ==
    /\ runState = "Running"
    /\ Stmt = "cleanupAll"
    /\ ~inPhase
    /\ inPhase' = TRUE
    /\ clCase' = 1
    /\ dOutcome' = [c \in Cases |-> "none"]
    /\ log' = Append(log, Event("begin", "cleanupAll", 0))
    /\ UNCHANGED <<cases, hasUri, dconn, runState, ip, dpc, polls,
                   deletes, ext, detached, taskSt, scIdle, scExec,
                   runs, compounds, thrown, faults>>
    /\ UNCHANGED sideVars

\* runCleanup(evalCase.cleanup) has returned to the for loop of cleanupAll
CleanupReturned(outcome) ==
    /\ dOutcome' = [dOutcome EXCEPT ![clCase] = outcome]
    /\ dpc' = "idle"
    /\ log' = Append(log, Event("cleaned", "cleanupAll", clCase))
    /\ clCase' = clCase + 1
    /\ polls' = 0
    /\ deletes' = [y \in Artifacts |-> 0]

\* utils/cleanup.ts: runCleanup, and dropSearchIndex up to the try block
RunCleanup ==
    /\ runState = "Running"
    /\ Stmt = "cleanupAll"
    /\ inPhase
    /\ clCase \in Cases
    /\ dpc = "idle"
    /\ IF cases[clCase].cleanup = NoCleanup
       THEN CleanupReturned("nospec")
       ELSE IF ~hasUri
            THEN CleanupReturned("nouri")
            ELSE /\ dpc' = "connect"
                 /\ dOutcome' = [dOutcome EXCEPT ![clCase] = "running"]
                 /\ UNCHANGED <<log, clCase, polls, deletes>>
    /\ UNCHANGED <<cases, hasUri, dconn, runState, ip, inPhase,
                   ext, detached, taskSt, scIdle, scExec, runs,
                   compounds, thrown, faults>>
    /\ UNCHANGED sideVars

\* what a step of dropSearchIndex leaves alone
DropFrame ==
    /\ UNCHANGED <<cases, hasUri, ip, inPhase, detached,
                   taskSt, scIdle, scExec, runs, compounds, thrown>>
    /\ UNCHANGED sideVars

InDrop(at) ==
    /\ runState = "Running"
    /\ Stmt = "cleanupAll"
    /\ inPhase
    /\ clCase \in Cases
    /\ dpc = at

\* a call to the external system throws: control goes to the catch block,
\* which logs, and then to the finally block
DropFails(at) ==
    /\ InDrop(at)
    /\ at = "poll" => polls < MaxPolls
    /\ CanFail
    /\ faults' = faults + 1
    /\ dpc' = "finally"
    /\ dOutcome' = [dOutcome EXCEPT ![clCase] = "error"]
    /\ UNCHANGED <<runState, log, clCase, polls, deletes, ext, dconn>>
    /\ DropFrame

\* utils/cleanup.ts: client = new MongoClient(uri); await client.connect()
DropConnect ==
    /\ InDrop("connect")
    /\ dpc' = "list"
    /\ dconn' = "open"
    /\ UNCHANGED <<runState, log, clCase, polls, dOutcome, deletes, ext, faults>>
    /\ DropFrame

\* utils/cleanup.ts: the first listSearchIndexes and the existingIndex test
DropList ==
    /\ InDrop("list")
    /\ IF ext[cases[clCase].cleanup] = "absent"
       THEN /\ dpc' = "finally"
            /\ dOutcome' = [dOutcome EXCEPT ![clCase] = "absent"]
       ELSE /\ dpc' = "drop"
            /\ UNCHANGED dOutcome
    /\ UNCHANGED <<runState, log, clCase, polls, deletes, ext, faults, dconn>>
    /\ DropFrame

\* utils/cleanup.ts: await coll.dropSearchIndex(indexName); the external
\* system starts an asynchronous deletion
DropIssue ==
    /\ InDrop("drop")
    /\ deletes' = [deletes EXCEPT ![cases[clCase].cleanup] = @ + 1]
    /\ ext' = [ext EXCEPT ![cases[clCase].cleanup] =
                  IF @ = "absent" THEN "absent" ELSE "deleting"]
    /\ dpc' = "poll"
    /\ polls' = 0
    /\ UNCHANGED <<runState, log, clCase, dOutcome, faults, dconn>>
    /\ DropFrame

\* DropPoll that takes the accepted delete for a finished one: the loop
\* returns on its first iteration without looking at the listing
DropPoll_noListing ==
    /\ InDrop("poll")
    /\ IF polls < MaxPolls
       THEN /\ dpc' = "finally"
            /\ dOutcome' = [dOutcome EXCEPT ![clCase] = "gone"]
            /\ UNCHANGED polls
       ELSE /\ dpc' = "finally"
            /\ dOutcome' = [dOutcome EXCEPT ![clCase] = "timeout"]
            /\ UNCHANGED polls
    /\ UNCHANGED <<runState, log, clCase, deletes, ext, faults, dconn>>
    /\ DropFrame

\* utils/cleanup.ts: one iteration of the while loop, or its exit on timeout
DropPoll ==
    /\ InDrop("poll")
    /\ IF polls < MaxPolls
       THEN IF ext[cases[clCase].cleanup] = "absent"
            THEN /\ dpc' = "finally"
                 /\ dOutcome' = [dOutcome EXCEPT ![clCase] = "gone"]
                 /\ UNCHANGED polls
            ELSE /\ polls' = polls + 1
                 /\ UNCHANGED <<dpc, dOutcome>>
       ELSE /\ dpc' = "finally"
            /\ dOutcome' = [dOutcome EXCEPT ![clCase] = "timeout"]
            /\ UNCHANGED polls
    /\ UNCHANGED <<runState, log, clCase, deletes, ext, faults, dconn>>
    /\ DropFrame

\* utils/cleanup.ts: finally { if (client) await client.close() } succeeds
DropClose ==
    /\ InDrop("finally")
    /\ CleanupReturned(dOutcome[clCase])
    /\ dconn' = "none"
    /\ UNCHANGED <<runState, ext, faults>>
    /\ DropFrame

\* utils/cleanup.ts: client.close() in the finally block throws; nothing
\* catches it, so dropSearchIndex, runCleanup, cleanupAll and runEvaluation
\* reject, and the connection is left unclosed
DropCloseThrows ==
    /\ InDrop("finally")
    /\ CanFail
    /\ faults' = faults + 1
    /\ dOutcome' = [dOutcome EXCEPT ![clCase] = "threw"]
    /\ dpc' = "idle"
    /\ runState' = "Aborted"
    /\ dconn' = IF dconn = "open" THEN "closeFailed" ELSE dconn
    /\ UNCHANGED <<log, clCase, polls, deletes, ext>>
    /\ DropFrame

\* harness/index.ts: the for loop of cleanupAll is over
CleanupAllEnd ==
    /\ runState = "Running"
    /\ Stmt = "cleanupAll"
    /\ inPhase
    /\ clCase = NumCases + 1
    /\ dpc = "idle"
    /\ inPhase' = FALSE
    /\ clCase' = 0
    /\ ip' = ip + 1
    /\ log' = Append(log, Event("end", "cleanupAll", 0))
    /\ UNCHANGED <<cases, hasUri, dconn, runState, dpc, polls,
                   dOutcome, deletes, ext, detached, taskSt, scIdle, scExec,
                   runs, compounds, thrown, faults>>
    /\ UNCHANGED sideVars

\* the external system completes an asynchronous deletion
DeleteCompletes ==
    /\ \E x \in Artifacts :
          /\ ext[x] = "deleting"
          /\ ext' = [ext EXCEPT ![x] = "absent"]
    /\ UNCHANGED <<cases, hasUri, dconn, runState, ip, inPhase, log,
                   clCase, dpc, polls, dOutcome, deletes, detached, taskSt,
                   scIdle, scExec, runs, compounds, thrown, faults>>
    /\ UNCHANGED sideVars

(***************************************************************************)
(* runEvaluation: the three awaited Eval calls.  Eval starts the task of   *)
(* every data record without an order between the records (no              *)
(* maxConcurrency is passed), hands each task output to every function of  *)
(* `scores`, and records a throwing task or scorer on the record instead   *)
(* of rejecting.                                                           *)
(***************************************************************************)
EvalFrame ==
    /\ UNCHANGED <<cases, hasUri, dconn, runState, clCase, dpc, polls, dOutcome, deletes>>
    /\ UNCHANGED sideVars

InEval ==
    /\ runState = "Running"
    /\ Stmt \in Approaches
    /\ inPhase

\* harness/index.ts: await Eval(projectName, {experimentName, data, task, scores});
\* Eval calls the task (taskBaseline / taskWithDocs / taskWithSkill) of every
\* record; taskWithSkill throws before any request when input.skillFiles is
\* missing, the other calls send their generation request
EvalStart ==
    /\ runState = "Running"
    /\ Stmt \in Approaches
    /\ ~inPhase
    /\ inPhase' = TRUE
    /\ taskSt' = [c \in Cases |->
                     IF Stmt = "With Skill" /\ ~cases[c].skill
                     THEN "failed" ELSE "generating"]
    /\ thrown' = thrown \cup
          {<<ip, c>> : c \in {d \in Cases : Stmt = "With Skill" /\ ~cases[d].skill}}
    /\ log' = Append(log, Event("begin", Stmt, 0))
    /\ UNCHANGED <<ip, ext, detached, scIdle, scExec, runs, compounds, faults>>
    /\ EvalFrame

\* harness/index.ts: generationClient.chat.completions.create rejects
TaskThrows(c) ==
    /\ InEval
    /\ taskSt[c] = "generating"
    /\ CanFail
    /\ faults' = faults + 1
    /\ taskSt' = [taskSt EXCEPT ![c] = "failed"]
    /\ thrown' = thrown \cup {<<ip, c>>}
    /\ UNCHANGED <<ip, inPhase, log, ext, detached, scIdle, scExec, runs, compounds>>
    /\ EvalFrame

\* harness/index.ts: the task returns stripMarkdownCodeBlocks(rawOutput);
\* Eval hands the output to every scorer of `scores`
TaskReturns(c) ==
    /\ InEval
    /\ taskSt[c] = "generating"
    /\ taskSt' = [taskSt EXCEPT ![c] = "scoring"]
    /\ scIdle' = [scIdle EXCEPT ![c] = NumScorers]
    /\ UNCHANGED <<ip, inPhase, log, ext, detached, scExec, runs, compounds, thrown, faults>>
    /\ EvalFrame

\* harness/index.ts: createEvalScorer, lines 706-717; executeMongoDBCode
\* connects and starts the generated code
ScorerExecutes(c) ==
    /\ InEval
    /\ taskSt[c] = "scoring"
    /\ scIdle[c] > 0
    /\ cases[c].exec
    /\ hasUri
    /\ scIdle' = [scIdle EXCEPT ![c] = @ - 1]
    /\ scExec' = [scExec EXCEPT ![c] = @ + 1]
    /\ runs' = [runs EXCEPT ![ip][c] = @ + 1]
    /\ UNCHANGED <<ip, inPhase, log, ext, detached, taskSt, compounds, thrown, faults>>
    /\ EvalFrame

\* harness/index.ts: createEvalScorer when no code is run: nothing to
\* execute, or executeMongoDBCode returns a failure without running the code
\* (no connection string, or connect fails); the scorers run, the scores are
\* aggregated and returned
ScorerScores(c) ==
    /\ InEval
    /\ taskSt[c] = "scoring"
    /\ scIdle[c] > 0
    /\ \/ ~(cases[c].exec /\ hasUri) /\ UNCHANGED faults
       \/ cases[c].exec /\ hasUri /\ CanFail /\ faults' = faults + 1
    /\ scIdle' = [scIdle EXCEPT ![c] = @ - 1]
    /\ compounds' = [compounds EXCEPT ![ip][c] = @ + 1]
    /\ UNCHANGED <<ip, inPhase, log, ext, detached, taskSt, scExec, runs, thrown>>
    /\ EvalFrame

\* the generated code running in the sandbox creates the search index
ExecCreates(c) ==
    /\ InEval
    /\ scExec[c] > 0
    /\ cases[c].cleanup # NoCleanup
    /\ ext[cases[c].cleanup] = "absent"
    /\ ext' = [ext EXCEPT ![cases[c].cleanup] = "present"]
    /\ UNCHANGED <<ip, inPhase, log, detached, taskSt, scIdle, scExec, runs,
                   compounds, thrown, faults>>
    /\ EvalFrame

\* code-executor.ts: executeMongoDBCode returns; harness/index.ts: lines
\* 719-744, the scorers run and the aggregated scores are returned.  The
\* promise of the wrapper settles without waiting for calls the generated
\* code did not await, which may go on (leftDetached).
ExecReturns(c, leftDetached) ==
    /\ InEval
    /\ scExec[c] > 0
    /\ scExec' = [scExec EXCEPT ![c] = @ - 1]
    /\ compounds' = [compounds EXCEPT ![ip][c] = @ + 1]
    /\ detached' = IF leftDetached /\ cases[c].cleanup # NoCleanup
                   THEN detached \cup {cases[c].cleanup} ELSE detached
    /\ UNCHANGED <<ip, inPhase, log, ext, taskSt, scIdle, runs, thrown, faults>>
    /\ EvalFrame

\* scorers/result/searchIndexExists.ts: client.close() in the finally block
\* throws, the scorer function rejects and Eval records the error
ScorerThrows(c) ==
    /\ InEval
    /\ scExec[c] > 0
    /\ CanFail
    /\ faults' = faults + 1
    /\ scExec' = [scExec EXCEPT ![c] = @ - 1]
    /\ thrown' = thrown \cup {<<ip, c>>}
    /\ UNCHANGED <<ip, inPhase, log, ext, detached, taskSt, scIdle, runs, compounds>>
    /\ EvalFrame

\* the task of the record threw, or every scorer of the record has settled
Settled(c) ==
    \/ taskSt[c] = "failed"
    \/ taskSt[c] = "scoring" /\ scIdle[c] = 0 /\ scExec[c] = 0

\* the promise of Eval resolves: every record has settled
EvalReturns ==
    /\ InEval
    /\ \A c \in Cases : Settled(c)
    /\ inPhase' = FALSE
    /\ ip' = ip + 1
    /\ taskSt' = [c \in Cases |-> "idle"]
    /\ log' = Append(log, Event("end", Stmt, 0))
    /\ UNCHANGED <<ext, detached, scIdle, scExec, runs, compounds, thrown, faults>>
    /\ EvalFrame

\* a call the generated code did not await creates the search index
DetachedCreates ==
    /\ \E x \in detached :
          /\ ext[x] = "absent"
          /\ ext' = [ext EXCEPT ![x] = "present"]
    /\ UNCHANGED <<ip, inPhase, log, detached, taskSt, scIdle, scExec, runs,
                   compounds, thrown, faults>>
    /\ EvalFrame

\* harness/index.ts: runEvaluation returns after the final cleanup
RunReturns ==
    /\ runState = "Running"
    /\ Stmt = "return"
    /\ runState' = "Done"
    /\ UNCHANGED <<cases, hasUri, dconn, ip, inPhase, log, clCase, dpc, polls,
                   dOutcome, deletes, ext, detached, taskSt, scIdle, scExec,
                   runs, compounds, thrown, faults>>
    /\ UNCHANGED sideVars

Next ==
    \/ RunStart
    \/ CleanupAllStart
    \/ RunCleanup
    \/ \E at \in {"connect", "list", "drop", "poll"} : DropFails(at)
    \/ DropConnect
    \/ DropList
    \/ DropIssue
    \/ DropPoll
    \/ DropClose
    \/ DropCloseThrows
    \/ CleanupAllEnd
    \/ DeleteCompletes
    \/ EvalStart
    \/ \E c \in Cases : TaskThrows(c)
    \/ \E c \in Cases : TaskReturns(c)
    \/ \E c \in Cases : ScorerExecutes(c)
    \/ \E c \in Cases : ScorerScores(c)
    \/ \E c \in Cases : ExecCreates(c)
    \/ \E c \in Cases, d \in BOOLEAN : ExecReturns(c, d)
    \/ \E c \in Cases : ScorerThrows(c)
    \/ EvalReturns
    \/ DetachedCreates
    \/ RunReturns

Spec == Init /\ [][Next]_vars

\* harness/index.ts: lines 781-807, the promise of an awaited Eval call
\* rejects once its records have settled (the experiment could not be
\* recorded); no statement of runEvaluation catches it, so runEvaluation
\* rejects and the statements after the call do not run
EvalRejects ==
    /\ InEval
    /\ \A c \in Cases : Settled(c)
    /\ CanFail
    /\ faults' = faults + 1
    /\ runState' = "Aborted"
    /\ UNCHANGED <<cases, hasUri, dconn, ip, inPhase, log, clCase, dpc, polls,
                   dOutcome, deletes, ext, detached, taskSt, scIdle, scExec,
                   runs, compounds, thrown>>
    /\ UNCHANGED sideVars

\* a run of runEvaluation in which an Eval call may reject
NextAbort ==
    \/ Next
    \/ EvalRejects

SpecAbort == Init /\ [][NextAbort]_vars

(***************************************************************************)
(* One call of the scorer function of createEvalScorer, statement by       *)
(* statement: executeMongoDBCode (code-executor.ts) on the task output.    *)
(***************************************************************************)
\* what a step of a scorer call leaves alone
CallFrame ==
    /\ UNCHANGED <<cases, hasUri, runState, ip, inPhase, log, clCase, dpc, dconn,
                   polls, dOutcome, deletes, taskSt, scIdle, scExec, runs,
                   compounds, thrown>>
    /\ UNCHANGED <<aggVars, rwVars, assertVars, taskVars>>

InCall(at) ==
    /\ InEval
    /\ xpc = at

\* the index the case is about
CallTarget == cases[xcase].cleanup

\* harness/index.ts: Eval calls a scorer with the output of case c; lines
\* 708-717: the code is executed if the case expects execution or a result.
\* code-executor.ts: lines 115-127, startTime and the connection string check
ScorerCalled(c) ==
    /\ InCall("idle")
    /\ taskSt[c] = "scoring"
    /\ \E g \in GeneratedCodes :
          /\ ~cases[c].exec => g = GoodCode
          /\ gen' = g
    /\ xcase' = c
    /\ elapsed' = 0
    /\ caught' = NothingThrown
    /\ xrejected' = FALSE
    /\ vconnects' = 0
    /\ vlists' = 0
    /\ vdoc' = Undefined
    /\ vres' = <<>>
    /\ IF ~cases[c].exec
       THEN xpc' = "v_start" /\ xres' = NoExecutionResult
       ELSE IF ~hasUri
            THEN /\ xpc' = "v_start"
                 /\ xres' = ExecutionResult(FALSE,
                               <<"MongoDB connection string not provided">>, NoTime)
            ELSE xpc' = "x_connect" /\ xres' = NoExecutionResult
    /\ UNCHANGED <<expct, xconn, vconn, ext, detached, faults>>
    /\ CallFrame

\* code-executor.ts: lines 130-131, client = new MongoClient(uri); connect()
XConnect ==
    /\ InCall("x_connect")
    /\ xconn' = "open"
    /\ xpc' = "x_compile"
    /\ UNCHANGED <<xcase, gen, expct, elapsed, caught, xres, xrejected, vconn,
                   vconnects, vlists, vdoc, vres, ext, detached, faults>>
    /\ CallFrame

\* code-executor.ts: client.connect() rejects; control goes to the catch block
XConnectFails ==
    /\ InCall("x_connect")
    /\ CanFail
    /\ faults' = faults + 1
    /\ caught' = Thrown("Error", <<"connect failed">>)
    /\ xpc' = "x_catch"
    /\ UNCHANGED <<xcase, gen, expct, elapsed, xres, xrejected, xconn, vconn,
                   vconnects, vlists, vdoc, vres, ext, detached>>
    /\ CallFrame

\* code-executor.ts: lines 182-194, new vm.Script(wrappedCode) parses the code
XCompile ==
    /\ InCall("x_compile")
    /\ IF gen.syntax
       THEN xpc' = "x_run" /\ UNCHANGED caught
       ELSE xpc' = "x_catch" /\ caught' = Thrown("Error", <<"SyntaxError">>)
    /\ UNCHANGED <<xcase, gen, expct, elapsed, xres, xrejected, xconn, vconn,
                   vconnects, vlists, vdoc, vres, ext, detached, faults>>
    /\ CallFrame

\* time passes while the generated code runs or is awaited
Tick ==
    /\ InEval
    /\ \/ xpc = "x_run" /\ gen.sync = "loop" /\ elapsed < TimeoutTicks
       \/ xpc = "x_await" /\ elapsed <= TimeoutTicks
    /\ elapsed' = elapsed + 1
    /\ UNCHANGED <<xpc, xcase, gen, expct, caught, xres, xrejected, xconn, vconn,
                   vconnects, vlists, vdoc, vres, ext, detached, faults>>
    /\ CallFrame

\* code-executor.ts: lines 196-198, script.runInContext(context, {timeout})
\* runs the wrapper up to its first suspension and returns its promise; the
\* timeout of the vm interrupts code that is still in that synchronous part
XRun ==
    /\ InCall("x_run")
    /\ IF gen.sync = "loop"
       THEN /\ elapsed = TimeoutTicks
            /\ caught' = Thrown("Error", <<"Script execution timed out">>)
            /\ xpc' = "x_catch"
       ELSE xpc' = "x_await" /\ UNCHANGED caught
    /\ UNCHANGED <<xcase, gen, expct, elapsed, xres, xrejected, xconn, vconn,
                   vconnects, vlists, vdoc, vres, ext, detached, faults>>
    /\ CallFrame


\* sandbox.require that hands the driver to every module name
sandboxRequire_allowAll(module) == NothingThrown

\* code-executor.ts: lines 141-147, sandbox.require: what the call throws
sandboxRequire(module) ==
    IF module = "mongodb" THEN NothingThrown
    ELSE Thrown("Error", RequireMessage(module))

\* code-executor.ts: lines 168-186, the wrapper awaits the call of the
\* final line iff that line of the processed code starts with await
WaitsForCall(g) ==
    StartsWith(LastLine(processedCode(<<g.tail>>)), <<"await", " ">>)

\* what the body of the generated code throws when it runs to its end with
\* the index in state x: the error of a require, or what the call it waits
\* for rejects with: the function's own throw, or the error of creating an
\* index that exists
BodyThrows(g, x) ==
    IF g.swallows THEN NothingThrown
    ELSE IF g.req # "none" /\ sandboxRequire(g.req).kind # "none"
         THEN sandboxRequire(g.req)
    ELSE IF ~WaitsForCall(g) THEN NothingThrown
    ELSE IF g.throws.kind # "none" THEN g.throws
    ELSE IF g.creates /\ x # "absent"
         THEN Thrown("Error", <<"Duplicate Index">>)
    ELSE NothingThrown

\* code-executor.ts: lines 196-205, the promise of the wrapper settles: the
\* await returns and the result is built, or it throws into the catch block.
\* A call the code did not await stays behind.
XSettle ==
    /\ InCall("x_await")
    /\ gen.async = "settles" \/ ~WaitsForCall(gen)
    /\ LET out == BodyThrows(gen, ext[CallTarget])
       IN IF out.kind = "none"
          THEN /\ xres' = ExecutionResult(TRUE, <<>>, elapsed)
               /\ xpc' = "x_finally"
               /\ ext' = IF gen.creates /\ WaitsForCall(gen) /\ ~gen.swallows
                         THEN [ext EXCEPT ![CallTarget] = "present"] ELSE ext
               /\ detached' = IF gen.creates /\ ~WaitsForCall(gen)
                              THEN detached \cup {CallTarget} ELSE detached
               /\ UNCHANGED caught
          ELSE /\ caught' = out
               /\ xpc' = "x_catch"
               /\ UNCHANGED <<xres, ext, detached>>
    /\ UNCHANGED <<xcase, gen, expct, elapsed, xrejected, xconn, vconn,
                   vconnects, vlists, vdoc, vres, faults>>
    /\ CallFrame

\* code-executor.ts: line 210, error.message || String(error)
MessageOf(error) ==
    IF error.message # <<>> THEN error.message
    ELSE IF error.kind = "Error" THEN <<"Error">>
    ELSE <<>>

\* code-executor.ts: lines 206-212, the catch block; reading .message of null
\* or undefined throws a TypeError out of the block
XCatch ==
    /\ InCall("x_catch")
    /\ IF caught.kind = "null"
       THEN xrejected' = TRUE /\ UNCHANGED xres
       ELSE /\ xres' = ExecutionResult(FALSE, MessageOf(caught), elapsed)
            /\ UNCHANGED xrejected
    /\ xpc' = "x_finally"
    /\ UNCHANGED <<xcase, gen, expct, elapsed, caught, xconn, vconn,
                   vconnects, vlists, vdoc, vres, ext, detached, faults>>
    /\ CallFrame

\* code-executor.ts: lines 213-222, finally: client.close() succeeds and
\* executeMongoDBCode returns (or rejects with the error of its catch block)
XClose ==
    /\ InCall("x_finally")
    /\ xconn' = "none"
    /\ xpc' = "v_start"
    /\ UNCHANGED <<xcase, gen, expct, elapsed, caught, xres, xrejected, vconn,
                   vconnects, vlists, vdoc, vres, ext, detached, faults>>
    /\ CallFrame

\* code-executor.ts: lines 216-220, client.close() throws; the error is
\* logged and the connection is left unclosed
XCloseFails ==
    /\ InCall("x_finally")
    /\ xconn = "open"
    /\ CanFail
    /\ faults' = faults + 1
    /\ xconn' = "closeFailed"
    /\ xpc' = "v_start"
    /\ UNCHANGED <<xcase, gen, expct, elapsed, caught, xres, xrejected,
                   vconn, vconnects, vlists, vdoc, vres, ext, detached>>
    /\ CallFrame

\* harness/index.ts: lines 711-716 and 719-724, the executionResult of the
\* scorer context: what executeMongoDBCode returned, or the failure built in
\* the catch block around the call
ContextResult ==
    IF xrejected THEN ExecutionResult(FALSE, <<"TypeError">>, NoTime) ELSE xres

(***************************************************************************)
(* searchIndexExists (scorers/result/searchIndexExists.ts), called by the  *)
(* scorer function with the executionResult of the context.                *)
(***************************************************************************)
\* searchIndexExistsEarly without the test of the execution result
searchIndexExistsEarly_noExecutionTest(indexConfig, executionResult, uri) ==
    IF ~indexConfig.declared THEN <<ScoreResult(ExistsName, NULL, "none")>>
    ELSE IF ~uri THEN <<ScoreResult(ExistsName, 0, "error")>>
    ELSE <<>>

\* searchIndexExists.ts: lines 21-49, the returns before the try block; <<>>
\* when the function goes on to connect
searchIndexExistsEarly(indexConfig, executionResult, uri) ==
    IF ~indexConfig.declared THEN <<ScoreResult(ExistsName, NULL, "none")>>
    ELSE IF ~(executionResult.defined /\ executionResult.success)
         THEN <<ScoreResult(ExistsName, 0, "reason")>>
    ELSE IF ~uri THEN <<ScoreResult(ExistsName, 0, "error")>>
    ELSE <<>>

\* searchIndexExists.ts: lines 90-105, one result per entry of config
ConfigResults(foundIndex, config) ==
    [i \in DOMAIN config |->
        ScoreResult(ConfigName(config[i].key),
                    IF matches(getNestedValue(foundIndex, config[i].key),
                               config[i].val) THEN 1 ELSE 0,
                    "config")]

\* searchIndexExists.ts: lines 21-53; the expectation of the case is read
\* from the context (a case that expects no execution declares no result)
VStart ==
    /\ InCall("v_start")
    /\ \E indexConfig \in Expectations :
          /\ ~cases[xcase].exec => ~indexConfig.declared
          /\ expct' = indexConfig
          /\ LET early == searchIndexExistsEarly(indexConfig, ContextResult, hasUri)
             IN IF early # <<>>
                THEN vres' = early /\ xpc' = "returned"
                ELSE xpc' = "v_connect" /\ UNCHANGED vres
    /\ UNCHANGED <<xcase, gen, elapsed, caught, xres, xrejected, xconn,
                   vconn, vconnects, vlists, vdoc, ext, detached, faults>>
    /\ CallFrame

\* searchIndexExists.ts: lines 56-57, client = new MongoClient(uri); connect()
VConnect ==
    /\ InCall("v_connect")
    /\ vconn' = "open"
    /\ vconnects' = vconnects + 1
    /\ xpc' = "v_list"
    /\ UNCHANGED <<xcase, gen, expct, elapsed, caught, xres, xrejected, xconn,
                   vlists, vdoc, vres, ext, detached, faults>>
    /\ CallFrame

\* VFails returning from the catch block past the finally block
VFails_noFinally(at) ==
    /\ InCall(at)
    /\ CanFail
    /\ faults' = faults + 1
    /\ vconnects' = IF at = "v_connect" THEN vconnects + 1 ELSE vconnects
    /\ vlists' = IF at = "v_list" THEN vlists + 1 ELSE vlists
    /\ vres' = <<ScoreResult(ExistsName, 0, "error")>>
    /\ xpc' = "returned"
    /\ UNCHANGED <<xcase, gen, expct, elapsed, caught, xres, xrejected, xconn,
                   vconn, vdoc, ext, detached>>
    /\ CallFrame

\* searchIndexExists.ts: lines 108-114, connect or the listing throws and the
\* catch block builds the result
VFails(at) ==
    /\ InCall(at)
    /\ CanFail
    /\ faults' = faults + 1
    /\ vconnects' = IF at = "v_connect" THEN vconnects + 1 ELSE vconnects
    /\ vlists' = IF at = "v_list" THEN vlists + 1 ELSE vlists
    /\ vres' = <<ScoreResult(ExistsName, 0, "error")>>
    /\ xpc' = "v_finally"
    /\ UNCHANGED <<xcase, gen, expct, elapsed, caught, xres, xrejected, xconn,
                   vconn, vdoc, ext, detached>>
    /\ CallFrame

\* searchIndexExists.ts: lines 62-107, the one listing, the test for the
\* index and the config checks
VList ==
    /\ InCall("v_list")
    /\ vlists' = vlists + 1
    /\ IF ext[CallTarget] = "absent"
       THEN /\ vdoc' = Undefined
            /\ vres' = <<ScoreResult(ExistsName, 0, "notfound")>>
       ELSE \E foundIndex \in IndexDocs :
               /\ vdoc' = foundIndex
               /\ vres' = <<ScoreResult(ExistsName, 1, "found")>>
                             \o ConfigResults(foundIndex, expct.config)
    /\ xpc' = "v_finally"
    /\ UNCHANGED <<xcase, gen, expct, elapsed, caught, xres, xrejected, xconn,
                   vconn, vconnects, ext, detached, faults>>
    /\ CallFrame

\* searchIndexExists.ts: lines 115-119, finally: client.close() succeeds
VClose ==
    /\ InCall("v_finally")
    /\ vconn' = "none"
    /\ xpc' = "returned"
    /\ UNCHANGED <<xcase, gen, expct, elapsed, caught, xres, xrejected, xconn,
                   vconnects, vlists, vdoc, vres, ext, detached, faults>>
    /\ CallFrame

\* searchIndexExists.ts: lines 115-119, client.close() throws: the scorer
\* function rejects and the connection is left unclosed
VCloseThrows ==
    /\ InCall("v_finally")
    /\ vconn = "open"
    /\ CanFail
    /\ faults' = faults + 1
    /\ vconn' = "closeFailed"
    /\ xpc' = "rejected"
    /\ UNCHANGED <<xcase, gen, expct, elapsed, caught, xres, xrejected, xconn,
                   vconnects, vlists, vdoc, vres, ext, detached>>
    /\ CallFrame

\* the scorer function has returned or rejected; Eval may call the next one
CallEnds ==
    /\ InEval
    /\ xpc \in {"returned", "rejected"}
    /\ xpc' = "idle"
    /\ xcase' = 0
    /\ gen' = GoodCode
    /\ expct' = Expectation(FALSE, <<>>)
    /\ elapsed' = 0
    /\ caught' = NothingThrown
    /\ xres' = NoExecutionResult
    /\ xrejected' = FALSE
    /\ xconn' = "none"
    /\ vconn' = "none"
    /\ vconnects' = 0
    /\ vlists' = 0
    /\ vdoc' = Undefined
    /\ vres' = <<>>
    /\ UNCHANGED <<ext, detached, faults>>
    /\ CallFrame

NextScorer ==
    \/ RunStart
    \/ CleanupAllStart
    \/ RunCleanup
    \/ \E at \in {"connect", "list", "drop", "poll"} : DropFails(at)
    \/ DropConnect
    \/ DropList
    \/ DropIssue
    \/ DropPoll
    \/ DropClose
    \/ DropCloseThrows
    \/ CleanupAllEnd
    \/ DeleteCompletes
    \/ EvalStart
    \/ \E c \in Cases : TaskReturns(c)
    \/ \E c \in Cases : ScorerCalled(c)
    \/ XConnect
    \/ XConnectFails
    \/ XCompile
    \/ Tick
    \/ XRun
    \/ XSettle
    \/ XCatch
    \/ XClose
    \/ XCloseFails
    \/ VStart
    \/ VConnect
    \/ \E at \in {"v_connect", "v_list"} : VFails(at)
    \/ VList
    \/ VClose
    \/ VCloseThrows
    \/ CallEnds
    \/ DetachedCreates

\* the run up to its first approach, with the scorer calls of that approach
\* taken statement by statement
SpecScorer == Init /\ [][NextScorer]_vars

(***************************************************************************)
(* Properties of aggregateScores, stated over the input without the        *)
(* aggregator's own filter and loops.                                      *)
(***************************************************************************)
Categories == {"syntax", "semantic", "execution", "result"}

\* positions of the input whose score is not null and whose name maps to cat
Members(cat) ==
    {i \in DOMAIN scores :
        scores[i].score # NULL /\ getScoreCategory(scores[i].name) = cat}

NonNull == {i \in DOMAIN scores : scores[i].score # NULL}

Present == {cat \in Categories : Members(cat) # {}}

RECURSIVE SumAt(_)
SumAt(S) ==
    IF S = {} THEN 0
    ELSE LET i == CHOOSE j \in S : TRUE IN scores[i].score + SumAt(S \ {i})

RECURSIVE ProdCount(_)
ProdCount(C) ==
    IF C = {} THEN 1
    ELSE LET c == CHOOSE d \in C : TRUE
         IN Cardinality(Members(c)) * ProdCount(C \ {c})

\* sum over the categories of C of (category mean * L), L a common multiple
RECURSIVE ScaledMeans(_, _)
ScaledMeans(C, L) ==
    IF C = {} THEN 0
    ELSE LET c == CHOOSE d \in C : TRUE
         IN (SumAt(Members(c)) * L) \div Cardinality(Members(c))
              + ScaledMeans(C \ {c}, L)

\* the k-th smallest element of a set of positions
KthOf(S, k) == CHOOSE i \in S : Cardinality({j \in S : j < i}) = k - 1

CategoryOfEntry(e) == CHOOSE cat \in Categories : <<capitalize(cat)>> = e.name

\* C1: every category compound is the arithmetic mean of the non-null scores
\* whose names map to that category, and the overall compound is the
\* arithmetic mean of the category compounds present (a mean of means).
C1_MeanOfMeans ==
    /\ \A k \in DOMAIN aggregated.categories :
          LET e == aggregated.categories[k]
              m == Members(CategoryOfEntry(e))
          IN /\ m # {}
             /\ e.score.den > 0
             /\ e.score.num * Cardinality(m) = e.score.den * SumAt(m)
    /\ Present # {} =>
          LET L == ProdCount(Present)
              c == aggregated.compound.score
          IN /\ c.den > 0
             /\ c.num * Cardinality(Present) * L = c.den * ScaledMeans(Present, L)

\* categories of unequal size whose mean of means differs from the mean of
\* all individual scores: two Syntax scores and one Execution score
C1_Witness ==
    /\ Cardinality(Members("syntax")) = 2
    /\ Cardinality(Members("execution")) = 1
    /\ Present = {"syntax", "execution"}
    /\ aggregated.compound.score.num * Cardinality(NonNull)
          # aggregated.compound.score.den * SumAt(NonNull)

\* the input with every null-scored entry removed
WithoutNulls == [k \in 1..Cardinality(NonNull) |-> scores[KthOf(NonNull, k)]]

\* C2: no null score in individual or categories, the compound is never
\* null, and removing the null-scored entries from the input leaves the
\* output unchanged.
C2_NullsContributeNothing ==
    /\ \A k \in DOMAIN aggregated.individual :
          aggregated.individual[k].score \in {0, 1}
    /\ \A k \in DOMAIN aggregated.categories :
          /\ DOMAIN aggregated.categories[k].score = {"num", "den"}
          /\ aggregated.categories[k].score.den > 0
          /\ aggregated.categories[k].score.num >= 0
    /\ DOMAIN aggregated.compound.score = {"num", "den"}
    /\ aggregated.compound.score.den > 0
    /\ aggregated.compound.score.num >= 0
    /\ aggregated = aggregateScores(WithoutNulls)

\* an input that mixes null and non-null entries of one category
C2_Witness ==
    /\ \E i, j \in DOMAIN scores :
          /\ scores[i].score = NULL
          /\ scores[j].score # NULL
          /\ getScoreCategory(scores[i].name) = getScoreCategory(scores[j].name)
    /\ Len(aggregated.individual) < Len(scores)

\* C3: individual holds every non-null input score in input order, a category
\* entry exists iff a non-null input score maps to the category, and the
\* returned list holds exactly one overall compound entry.
C3_OutputShape ==
    /\ aggregated.individual = WithoutNulls
    /\ \A cat \in Categories :
          (cat \in Present) <=>
             (\E k \in DOMAIN aggregated.categories :
                 aggregated.categories[k].name = <<capitalize(cat)>>)
    /\ \A k, l \in DOMAIN aggregated.categories :
          aggregated.categories[k].name = aggregated.categories[l].name => k = l
    /\ aggregated.compound.categoryCount = Cardinality(Present)
    /\ LET ret == ReturnedScores(aggregated)
       IN Cardinality({k \in DOMAIN ret : ret[k].name = <<"CompoundCodeGenScore">>}) = 1

\* a category whose only entries are null is left out while another is present
C3_Witness ==
    /\ \E i \in DOMAIN scores :
          /\ scores[i].score = NULL
          /\ getScoreCategory(scores[i].name) \notin Present
    /\ Cardinality(Present) = 2
    /\ Len(aggregated.categories) = 2
    /\ Len(aggregated.individual) = 2

(***************************************************************************)
(* Properties of runEvaluation.                                            *)
(***************************************************************************)
\* the Program indices of the three Eval calls
ApproachIndices == {i \in DOMAIN Program : Program[i] \in Approaches}

IsPrefix(s, t) == Len(s) <= Len(t) /\ SubSeq(t, 1, Len(s)) = s

\* the events of one cleanupAll: every case cleaned, in order
CleanupEvents ==
    <<Event("begin", "cleanupAll", 0)>>
      \o [c \in Cases |-> Event("cleaned", "cleanupAll", c)]
      \o <<Event("end", "cleanupAll", 0)>>

ApproachEvents(a) == <<Event("begin", a, 0), Event("end", a, 0)>>

\* Idle -> InitialCleanup -> {RunApproach(i) -> Cleanup} x 3 -> Done
ExpectedLog ==
    CleanupEvents \o ApproachEvents("Baseline")
      \o CleanupEvents \o ApproachEvents("With Docs")
      \o CleanupEvents \o ApproachEvents("With Skill")
      \o CleanupEvents

LastEvent == log[Len(log)]

EvalWorkActive ==
    \E c \in Cases : taskSt[c] # "idle" \/ scIdle[c] > 0 \/ scExec[c] > 0

\* C4: the approaches run in the order Baseline, WithDocumentation, WithSkill;
\* a cleanup of every case has completed before the first approach, between
\* consecutive approaches and after the last one before the run is Done; no
\* phase starts before the previous one has returned.
C4_PhaseOrder ==
    /\ IsPrefix(log, ExpectedLog)
    /\ runState = "Done" => log = ExpectedLog
    /\ EvalWorkActive =>
          /\ log # <<>>
          /\ LastEvent.kind = "begin"
          /\ LastEvent.what \in Approaches
    /\ dpc # "idle" =>
          /\ log # <<>>
          /\ LastEvent.what = "cleanupAll"
          /\ LastEvent.kind \in {"begin", "cleaned"}

\* a completed run with a connection string, in which an index was present
\* before the run, so that the cleanups had something to drop
C4_Witness ==
    /\ runState = "Done"
    /\ hasUri
    /\ Len(log) = Len(ExpectedLog)
    /\ \A i \in ApproachIndices : runs[i][1] > 0

ActiveCases ==
    {c \in Cases : taskSt[c] = "generating" \/ (taskSt[c] = "scoring" /\ ~Settled(c))}

RECURSIVE SumOver(_, _)
SumOver(f, S) ==
    IF S = {} THEN 0
    ELSE LET c == CHOOSE d \in S : TRUE IN f[c] + SumOver(f, S \ {c})

\* C5: cases are processed one at a time: never two cases in generation,
\* sandbox execution, verification or cleanup at once, so at most one task
\* touching the external artifact namespace is active.
C5_OneCaseAtATime ==
    /\ Cardinality(ActiveCases) + (IF dpc # "idle" THEN 1 ELSE 0) <= 1
    /\ SumOver(scExec, Cases) <= 1

\* C6: per (case, approach) the generated code is run in the sandbox exactly
\* once if the case declares an execution or result expectation, and not at
\* all otherwise; never more than once.
C6_ExecutedOnce ==
    \A i \in ApproachIndices, c \in Cases :
       /\ runs[i][c] <= (IF cases[c].exec THEN 1 ELSE 0)
       /\ (runState = "Done" /\ hasUri /\ faults = 0 /\ <<i, c>> \notin thrown) =>
             runs[i][c] = (IF cases[c].exec THEN 1 ELSE 0)

\* C7: a full run over N cases records exactly one overall compound score per
\* (case, approach) pair, 3N in total, never more and never fewer.
C7_OneCompoundPerPair ==
    /\ \A i \in ApproachIndices, c \in Cases : compounds[i][c] <= 1
    /\ runState = "Done" =>
          \A i \in ApproachIndices, c \in Cases : compounds[i][c] = 1

\* C8: when generation or scoring throws for one case in one approach, the
\* error stays at that case: the rest of the run is not abandoned, and a run
\* that is Done has a score record for every other (case, approach) pair.
C8_ErrorContained ==
    /\ thrown # {} => runState # "Aborted"
    /\ runState = "Done" =>
          \A i \in ApproachIndices, c \in Cases :
             <<i, c>> \notin thrown => compounds[i][c] >= 1

\* C9 as stated: when a full run completes, no artifact named in any case's
\* cleanup spec exists in the external system (read for the runs that have a
\* connection string to the external system).
C9_NoArtifactLeft ==
    (runState = "Done" /\ hasUri) =>
       \A c \in Cases :
          cases[c].cleanup # NoCleanup => ext[cases[c].cleanup] = "absent"

\* C9, amended: when a full run completes, the artifact named in a case's
\* cleanup spec does not exist if that case's final cleanup returned after a
\* listing showed the artifact absent and no sandbox execution left un-awaited
\* generated code behind.
C9_NoArtifactLeftWhenObservedGone ==
    runState = "Done" =>
       \A c \in Cases :
          ( /\ cases[c].cleanup # NoCleanup
            /\ dOutcome[c] \in {"absent", "gone"}
            /\ detached = {} ) =>
               ext[cases[c].cleanup] = "absent"

\* a completed run whose final cleanup dropped the index and saw it go
C9_Witness ==
    /\ runState = "Done"
    /\ detached = {}
    /\ \E c \in Cases : cases[c].cleanup # NoCleanup /\ dOutcome[c] = "gone"

\* C10: runCleanup / dropSearchIndex never throws to its caller, whatever
\* fails: every failure is logged and swallowed.
C10_CleanupNeverThrows ==
    /\ \A c \in Cases : dOutcome[c] # "threw"
    /\ runState # "Aborted"

(***************************************************************************)
(* Properties of dropSearchIndex.                                          *)
(***************************************************************************)
\* the index name handed to the dropSearchIndex call in progress
DropTarget == cases[clCase].cleanup

\* a step of a dropSearchIndex call that takes the call to its return
DropCallEnds == dpc = "finally" /\ dpc' = "idle"

\* C11: dropSearchIndex issues a delete only if its initial listing contains
\* the named index; for a name that does not exist it returns without error
\* and without a delete; a call issues at most one delete, only for the named
\* index, and leaves every other index untouched.
C11_DeleteOnlyIfListed ==
    [][ /\ \A y \in Artifacts : deletes'[y] <= 1
        /\ \A y \in Artifacts :
              deletes'[y] > deletes[y] =>
                 /\ dpc = "drop"
                 /\ y = DropTarget
        /\ (dpc' = "drop" /\ dpc # "drop") =>
              /\ dpc = "list"
              /\ ext[DropTarget] # "absent"
        /\ (dpc = "list" /\ ext[DropTarget] = "absent") =>
              /\ dpc' \in {"list", "finally"}
              /\ deletes' = deletes
        /\ (dpc = "finally" /\ deletes[DropTarget] = 0 /\ dOutcome[clCase] = "absent") =>
              runState' = "Running"
        /\ dpc # "idle" =>
              \A y \in Artifacts \ {DropTarget} : ext'[y] = ext[y]
      ]_vars

\* C12: after the delete, dropSearchIndex returns only when a listing taken
\* after the delete no longer shows the index or when maxWaitSeconds has
\* elapsed; on timeout it returns normally instead of failing.
C12_ReturnsWhenGoneOrTimedOut ==
    [][ /\ (DropCallEnds /\ deletes[DropTarget] > 0) =>
              /\ dOutcome[clCase] \in {"gone", "timeout"}
              /\ runState' = "Running"
        /\ (dpc = "poll" /\ dpc' = "finally" /\ dOutcome'[clCase] = "gone") =>
              ext[DropTarget] = "absent"
        /\ (dpc = "poll" /\ dpc' = "finally" /\ dOutcome'[clCase] = "timeout") =>
              polls = MaxPolls
      ]_vars

(***************************************************************************)
(* Properties of the rewrite in executeMongoDBCode, stated over the lines  *)
(* of the given code without the executor's own trim and pattern test.     *)
(***************************************************************************)
\* the first and the last line of the code that is not blank
FirstIndex ==
    IF \A i \in DOMAIN code : IsBlank(code[i]) THEN Len(code)
    ELSE CHOOSE i \in DOMAIN code :
            ~IsBlank(code[i]) /\ \A j \in 1..(i - 1) : IsBlank(code[j])

FinalIndex ==
    IF \A i \in DOMAIN code : IsBlank(code[i]) THEN Len(code)
    ELSE CHOOSE i \in DOMAIN code :
            ~IsBlank(code[i]) /\ \A j \in (i + 1)..Len(code) : IsBlank(code[j])

\* the final line without the white space around it
FinalLine == TrimLine(code[FinalIndex])

\* identifier(); - an identifier, parentheses holding at most white space,
\* and an optional semicolon
BareCall(l) ==
    \E n \in 1..Len(l), m \in 1..Len(l) :
       /\ l[1] \in IdStartWords
       /\ \A k \in 2..n : l[k] \in IdPartWords
       /\ m > n + 1
       /\ l[n + 1] = "("
       /\ \A k \in (n + 2)..(m - 1) : l[k] = " "
       /\ l[m] = ")"
       /\ SubSeq(l, m + 1, Len(l)) \in {<<>>, <<";">>}

\* the last line of the code the executor runs
ProcessedLast == processed[Len(processed)]

ExecutorReturned == xpc = "v_start" /\ cases[xcase].exec

\* C13: executeMongoDBCode never throws or rejects: whatever the code does
\* (throws, does not parse, requires a disallowed module), and on a failed
\* connect or a missing connection string, it returns an ExecutionResult,
\* with success = false and an error message on failure, and with
\* success = true only when the wrapped code completed without throwing.
C13_NeverRejects ==
    /\ ~xrejected
    /\ ExecutorReturned =>
          /\ xres.defined
          /\ ~xres.success => xres.error # <<>>
          /\ xres.success => caught = NothingThrown

\* executeMongoDBCode is running the generated code or awaiting its promise
ExecutorRunning == xpc \in {"x_run", "x_await"}

\* C14: executeMongoDBCode enforces its timeout on all generated code, code
\* that suspends on a wait that never completes included: the call is not
\* still running the code after the timeout has passed, and a call that
\* returns after the timeout was exceeded returns success = false with an
\* error and an executionTime.
C14_TimeoutEnforced ==
    /\ ExecutorRunning => elapsed <= TimeoutTicks
    /\ (ExecutorReturned /\ elapsed > TimeoutTicks) =>
          /\ xres.defined
          /\ ~xres.success
          /\ xres.error # <<>>
          /\ xres.time # NoTime

\* dropSearchIndex is not running: before its call, or after it returned or
\* rejected
CleanupCallOver == dpc = "idle"

\* searchIndexExists has returned or rejected
VerifierReturned == xpc \in {"returned", "rejected"}

\* executeMongoDBCode is not running: the scorer function is past its call
ExecutorOver == xpc \in {"v_start", "v_connect", "v_list", "v_finally",
                         "returned", "rejected"}

\* C15: every connection opened by a sandbox execution, a verifier call or a
\* cleanup call is closed by the time that call returns, on every exit path;
\* no connection is still open after the call that opened it has returned.
C15_ClosedOnEveryExit ==
    /\ ExecutorOver => xconn = "none"
    /\ VerifierReturned => vconn = "none"
    /\ CleanupCallOver => dconn = "none"

\* C15 (amended): by the time a sandbox execution, a verifier call or a
\* cleanup call returns or rejects, on every exit path, close() has been
\* called on the connection the call opened; no connection is left open
\* without a close request, and it is closed whenever that request succeeds.
C15_CloseRequestedOnEveryExit ==
    /\ ExecutorOver => xconn \in {"none", "closeFailed"}
    /\ VerifierReturned => vconn \in {"none", "closeFailed"}
    /\ CleanupCallOver => dconn \in {"none", "closeFailed"}

\* the verifier connected, its listing threw, and it returned the failing
\* result of its catch block with its connection and the executor's closed
C15_Witness ==
    /\ xpc = "returned"
    /\ xres.success
    /\ vconnects = 1
    /\ vlists = 1
    /\ vres = <<ScoreResult(ExistsName, 0, "error")>>
    /\ vconn = "none"
    /\ xconn = "none"
    /\ dconn = "none"

\* module names generated code may pass to require
ModuleNames == {"mongodb", "fs", "child_process"}

\* the generated code calls require with a module other than the driver and
\* does not catch what the call throws
RequiresDisallowed(g) == g.req \in ModuleNames \ {"mongodb"} /\ ~g.swallows

\* C17: in the sandbox, require of the driver module "mongodb" succeeds and
\* require of any other module throws an error whose message names that
\* module; the failure reaches the caller of executeMongoDBCode only as a
\* returned ExecutionResult with success = false and that message as error.
C17_RequireOnlyDriver ==
    /\ sandboxRequire("mongodb") = NothingThrown
    /\ \A module \in ModuleNames \ {"mongodb"} :
          /\ sandboxRequire(module).kind = "Error"
          /\ \E i \in DOMAIN sandboxRequire(module).message :
                sandboxRequire(module).message[i] = module
    /\ (ExecutorReturned /\ RequiresDisallowed(gen)) =>
          /\ ~xrejected
          /\ xres.defined
          /\ ~xres.success
          /\ caught = sandboxRequire(gen.req) => xres.error = RequireMessage(gen.req)

\* the code required "fs", and executeMongoDBCode returned the failure with
\* the message naming "fs"
C17_Witness ==
    /\ ExecutorReturned
    /\ RequiresDisallowed(gen)
    /\ gen.req = "fs"
    /\ caught = sandboxRequire("fs")
    /\ ~xrejected
    /\ ~xres.success
    /\ xres.error = <<"Module '", "fs", "' is not allowed in sandbox">>

\* searchIndexExists has built its results: the index was not in the listing
ReportedNotFound ==
    /\ xpc \in {"v_finally", "returned", "rejected"}
    /\ vres = <<ScoreResult(ExistsName, 0, "notfound")>>

\* C18: the verifier tolerates eventual consistency by polling: when the
\* index is absent from the first listing it lists again, and it reports
\* Result_SearchIndexExists = 0 only after more than one listing, the index
\* still being absent from the last one.
C18_VerifierPolls == ReportedNotFound => vlists > 1

\* searchIndexExists is past its early returns: the expectation has been read
PastEarlyReturns ==
    xpc \in {"v_connect", "v_list", "v_finally", "returned", "rejected"}

\* the execution of the context is absent or did not succeed
ExecutionFailed(executionResult) ==
    ~(executionResult.defined /\ executionResult.success)

NotApplicable == <<ScoreResult(ExistsName, NULL, "none")>>

CannotVerify == <<ScoreResult(ExistsName, 0, "reason")>>

\* C19: searchIndexExists returns a single null-scored
\* Result_SearchIndexExists when the case declares no searchIndexExists
\* expectation; when the expectation is declared but the execution result is
\* absent or unsuccessful it returns a single score-0 result with a
\* diagnostic reason, and it never connects to or lists the external system.
C19_EarlyReturns ==
    /\ \A indexConfig \in Expectations, uri \in BOOLEAN :
          indexConfig.declared =>
             searchIndexExistsEarly(indexConfig, NoExecutionResult, uri) = CannotVerify
    /\ (PastEarlyReturns /\ ~expct.declared) =>
          /\ xpc = "returned"
          /\ vres = NotApplicable
          /\ vconnects = 0 /\ vlists = 0 /\ vconn = "none"
    /\ (PastEarlyReturns /\ expct.declared /\ ExecutionFailed(ContextResult)) =>
          /\ xpc = "returned"
          /\ vres = CannotVerify
          /\ vconnects = 0 /\ vlists = 0 /\ vconn = "none"

\* the code threw, the expectation is declared, and the verifier returned the
\* single failing result without a connection or a listing
C19_Witness ==
    /\ xpc = "returned"
    /\ expct.declared
    /\ xres.defined /\ ~xres.success
    /\ caught = Thrown("Error", <<"boom">>)
    /\ vres = CannotVerify
    /\ vconnects = 0
    /\ vlists = 0

\* the keys of a dot path
PathKeys(path) == SelectSeq(path, LAMBDA t : t # ".")

\* the value at the keys below v; undefined where a key is missing
RECURSIVE ValueAt(_, _)
ValueAt(v, keys) ==
    IF keys = <<>> THEN v
    ELSE IF v.kind # "object" THEN Undefined
    ELSE ValueAt(Get(v, Head(keys)), Tail(keys))

\* deep equality of two values: equal atoms, or objects with the same keys
\* and deep-equal values under each key, in whatever order the members come
RECURSIVE DeepEqual(_, _)
DeepEqual(a, b) ==
    /\ a.kind = b.kind
    /\ a.kind = "atom" => a.atom = b.atom
    /\ a.kind = "object" =>
          /\ Keys(a) = Keys(b)
          /\ \A k \in Keys(a) : DeepEqual(Get(a, k), Get(b, k))

\* searchIndexExists listed the indexes and built its results from the listing
ExistenceChecked ==
    /\ xpc \in {"v_finally", "returned", "rejected"}
    /\ vres # <<>>
    /\ vres[1].meta \in {"found", "notfound"}

\* C20: when a config with k keys is specified and the verifier has listed
\* the indexes, it emits Result_SearchIndexExists and one more named result
\* per key, whatever the score of the existence check; the result of a key
\* is 1 iff the value at that dot path in the found index deep-equals the
\* expected value, and 0 if the field is absent or differs.
C20_ConfigResults ==
    ExistenceChecked =>
       /\ vres[1].name = ExistsName
       /\ Len(vres) = 1 + Len(expct.config)
       /\ \A i \in DOMAIN expct.config :
             i + 1 \in DOMAIN vres =>
                /\ vres[i + 1].name = ConfigName(expct.config[i].key)
                /\ vres[i + 1].score =
                      IF DeepEqual(ValueAt(vdoc, PathKeys(expct.config[i].key)),
                                   expct.config[i].val)
                      THEN 1 ELSE 0

(***************************************************************************)
(* Properties of the grouping in aggregateScores.                          *)
(***************************************************************************)
RecognizedPrefixes == {"Syntax", "Semantic", "Execution", "Result"}

\* the category a name belongs to by its prefix "<Category>_"; Result for a
\* name without such a prefix
PrefixCategory(name) ==
    IF Len(name) >= 2 /\ name[1] \in RecognizedPrefixes /\ name[2] = "_"
    THEN name[1] ELSE "Result"

\* the names of the applicable input scores of a category, in input order
NamesOf(cat) ==
    SeqNames(SelectSeq(scores,
                       LAMBDA s : s.score # NULL /\ PrefixCategory(s.name) = cat))

\* C23: getScoreCategory classifies a score by its name prefix alone
\* (Syntax_, Semantic_, Execution_, Result_) and puts every other name into
\* the Result category; aggregateScores groups by exactly this mapping, so
\* a score with an unrecognized name counts toward the Result compound.
C23_GroupedByPrefix ==
    /\ \A n \in ScoreNames : <<capitalize(getScoreCategory(n))>> = <<PrefixCategory(n)>>
    /\ \A i \in DOMAIN aggregated.categories :
          LET e == aggregated.categories[i]
          IN /\ e.name[1] \in RecognizedPrefixes
             /\ e.assertions = NamesOf(e.name[1])
             /\ e.count = Len(NamesOf(e.name[1]))
    /\ \A cat \in RecognizedPrefixes :
          NamesOf(cat) # <<>> =>
             \E i \in DOMAIN aggregated.categories :
                aggregated.categories[i].name = <<cat>>

\* a failing Result_ score and a passing score with an unrecognized name:
\* both are in the Result category, whose compound is 1/2
C23_Witness ==
    /\ scores = <<[name |-> <<"Result", "_", "SearchIndexExists">>, score |-> 0],
                  [name |-> <<"Custom", "Check">>, score |-> 1]>>
    /\ Len(aggregated.categories) = 1
    /\ aggregated.categories[1].name = <<"Result">>
    /\ aggregated.categories[1].count = 2
    /\ aggregated.categories[1].score = Frac(1, 2)

\* a fraction in the interval [0, 1]
InUnitInterval(f) == f.den > 0 /\ 0 <= f.num /\ f.num <= f.den

NoneApplicable == \A i \in DOMAIN scores : scores[i].score = NULL

\* C29: for every input whose non-null scores are all 0 or 1, every category
\* compound and the overall compound lie in [0, 1]; when no input score is
\* applicable (empty input or all scores null) there are no category
\* entries and the overall compound is exactly 0 with categoryCount 0.
C29_CompoundsInUnitInterval ==
    /\ \A i \in DOMAIN aggregated.categories :
          InUnitInterval(aggregated.categories[i].score)
    /\ InUnitInterval(aggregated.compound.score)
    /\ NoneApplicable =>
          /\ aggregated.categories = <<>>
          /\ aggregated.compound.score = Frac(0, 1)
          /\ aggregated.compound.categoryCount = 0

\* two scores, both null: nothing is applicable and the compound is 0
C29_Witness ==
    /\ Len(scores) = 2
    /\ NoneApplicable
    /\ aggregated.individual = <<>>
    /\ aggregated.categories = <<>>
    /\ aggregated.compound.score = Frac(0, 1)
    /\ aggregated.compound.categoryCount = 0

(***************************************************************************)
(* Properties of the scorers run on one context.                           *)
(***************************************************************************)
\* the results in the flattened list that carry the given name
ResultsNamed(name) == SelectSeq(flat, LAMBDA r : r.name = name)

SucceedsName == <<"Execution", "_", "Succeeds">>

\* the context holds an execution result, and it is a success
ExecutionSucceeded ==
    ctx.executionResult.defined /\ ctx.executionResult.success

\* C21: the succeeds scorer returns exactly one result named
\* Execution_Succeeds; its score is null iff the case does not set
\* execution.shouldSucceed to true; otherwise it is 1 iff an execution result
\* is present and successful, and 0 with a diagnostic, never null, when the
\* execution result is absent or unsuccessful.
C21_SucceedsScore ==
    scored =>
       /\ Len(ResultsNamed(SucceedsName)) = 1
       /\ LET r == ResultsNamed(SucceedsName)[1]
          IN /\ r.score = NULL <=> ctx.expected.shouldSucceed # "true"
             /\ ctx.expected.shouldSucceed = "true" =>
                   /\ r.score = 1 <=> ExecutionSucceeded
                   /\ ~ExecutionSucceeded => (r.score = 0 /\ r.meta = "error")

\* shouldSucceed is true and the context has no execution result: score 0
\* with the diagnostic, not null
C21_Witness ==
    /\ scored
    /\ ctx.expected.shouldSucceed = "true"
    /\ ~ctx.executionResult.defined
    /\ ResultsNamed(SucceedsName) = <<ScoreResult(SucceedsName, 0, "error")>>

\* ---------------------------------------------------------------------
\* mustContain / mustNotContain: one result per pattern
\* ---------------------------------------------------------------------

\* how many results a pattern scorer owes for a list
Owed(patterns) ==
    IF patterns.present /\ Len(patterns.list) > 0 THEN Len(patterns.list) ELSE 1

\* the slots of the flattened scores filled by mustContain and by
\* mustNotContain; allScorers runs them third and fourth
ContainResults == SubSeq(flat, 3, 2 + Owed(ctx.expected.mustContain))

NotContainResults ==
    SubSeq(flat, 3 + Owed(ctx.expected.mustContain),
           2 + Owed(ctx.expected.mustContain) + Owed(ctx.expected.mustNotContain))

\* results answers the list entry by entry: named Semantic_<name>, and
\* scored 1 exactly when containment of the entry's pattern is as wanted
PerPattern(results, patterns, wanted) ==
    IF patterns.present /\ Len(patterns.list) > 0
    THEN /\ Len(results) = Len(patterns.list)
         /\ \A i \in DOMAIN patterns.list :
               /\ results[i].name = <<"Semantic", "_", patterns.list[i].name>>
               /\ results[i].score \in {0, 1}
               /\ results[i].score = 1 <=>
                     (includes(ctx.output, patterns.list[i].pattern) <=> wanted)
    ELSE /\ Len(results) = 1
         /\ results[1].score = NULL

\* C22: for a non-empty list of N patterns mustContain (mustNotContain)
\* returns exactly N results in list order, the i-th named Semantic_<name_i>
\* and scored 1 iff the i-th pattern is (is not) a substring of the output,
\* whatever the other entries are; for an empty or absent list it returns
\* exactly one result with score null.
C22_OnePerPattern ==
    scored =>
       /\ Len(flat) = 3 + Owed(ctx.expected.mustContain)
                        + Owed(ctx.expected.mustNotContain) + Len(ctx.verified)
       /\ flat[3 + Owed(ctx.expected.mustContain)
                 + Owed(ctx.expected.mustNotContain)].name = SucceedsName
       /\ PerPattern(ContainResults, ctx.expected.mustContain, TRUE)
       /\ PerPattern(NotContainResults, ctx.expected.mustNotContain, FALSE)

\* a list of two patterns of which the first is in the output and the
\* second is not, scored 1 and 0 by mustContain, next to an empty
\* mustNotContain list scored null
C22_Witness ==
    /\ scored
    /\ ctx.output = <<"async", " ", "x", ".", "a", ".", "c", " ", "await">>
    /\ ctx.expected.mustContain.present
    /\ ctx.expected.mustContain.list
          = <<Pattern(<<"a", ".", "c">>, "UsesA"), Pattern(<<"b">>, "UsesB")>>
    /\ ctx.expected.mustNotContain = PatternList(TRUE, <<>>)
    /\ ContainResults = <<ScoreResult(<<"Semantic", "_", "UsesA">>, 1, "pattern"),
                          ScoreResult(<<"Semantic", "_", "UsesB">>, 0, "pattern")>>
    /\ NotContainResults
          = <<ScoreResult(<<"Semantic", "_", "MustNotContain">>, NULL, "none")>>

\* ---------------------------------------------------------------------
\* createEvalScorer: names of the returned scores
\* ---------------------------------------------------------------------

\* C30: the list of scores the eval scorer returns for one case and
\* approach has no two entries with the same name.
C30_DistinctNames ==
    scored =>
       \A i, j \in DOMAIN returned :
          i # j => returned[i].name # returned[j].name

\* ---------------------------------------------------------------------
\* taskWithSkill: skill text is required
\* ---------------------------------------------------------------------

\* the case supplies no skill reference: the field is absent or lists no file
NoSkillReference ==
    \/ input.skillFiles.kind = "absent"
    \/ input.skillFiles.kind = "array" /\ Len(input.skillFiles.paths) = 0

\* C24: when the case supplies no skill reference (skillFiles absent or
\* listing zero files) the With Skill task fails with an error and sends no
\* generation request; it never proceeds without skill text.
C24_SkillRequired ==
    (approach = "With Skill" /\ NoSkillReference /\ tpc # "start")
       => (tpc = "threw" /\ requests = <<>>)

\* ---------------------------------------------------------------------
\* fetchDocumentationWithInfo: truncation and its record
\* ---------------------------------------------------------------------

\* C25: the fetched text is truncated iff it is longer than maxChars: then
\* wasTruncated, charsTruncated = originalLength - maxChars and the content
\* is the first maxChars characters followed by the marker; otherwise the
\* content is the full text, not truncated, 0 characters removed. In both
\* cases the recorded original length is the recorded truncated length
\* plus the recorded characters removed.
C25_TruncationRecord ==
    response.kind = "ok" =>
       /\ docResult.originalLength = Len(response.text)
       /\ docResult.wasTruncated <=> Len(response.text) > maxChars
       /\ docResult.wasTruncated =>
             /\ docResult.charsTruncated = docResult.originalLength - maxChars
             /\ docResult.content
                   = SubSeq(response.text, 1, maxChars)
                        \o "\n\n[... truncated "
                        \o ToString(docResult.charsTruncated) \o " characters ...]"
       /\ ~docResult.wasTruncated =>
             /\ docResult.charsTruncated = 0
             /\ docResult.content = response.text
       /\ metadata.docRecorded =>
             metadata.docOriginalLength
                = metadata.docContentLength + metadata.docCharsTruncated

\* ---------------------------------------------------------------------
\* executeMongoDBCode: a bare final call is waited for
\* ---------------------------------------------------------------------

\* the promise of the function called on the final line has rejected
CallRejected ==
    /\ caught.kind # "none"
    /\ caught \in {gen.throws, Thrown("Error", <<"Duplicate Index">>)}

\* C26: when the final line of the code is a bare call f(); of an async
\* function, executeMongoDBCode produces no ExecutionResult and keeps the
\* connection open until the promise of f has settled; if that promise
\* rejected, the result is success = false.
C26_WaitsForBareCall ==
    (xpc # "idle" /\ cases[xcase].exec /\ BareCall(gen.tail)) =>
       /\ xpc = "x_await" => (~xres.defined /\ xconn = "open")
       /\ (ExecutorReturned /\ CallRejected) => (xres.defined /\ ~xres.success)

\* ---------------------------------------------------------------------
\* runEvaluation: the cleanup after the last sandbox execution
\* ---------------------------------------------------------------------

\* runEvaluation has returned or rejected
Terminated == runState \in {"Done", "Aborted"}

\* the generated code of some case ran in the sandbox in statement i
ExecutedIn(i) == \E c \in Cases : runs[i][c] > 0

\* a cleanupAll placed after statement i has run for every case and returned
CleanedAfter(i) ==
    \E j \in DOMAIN Program : j > i /\ Program[j] = "cleanupAll" /\ j < ip

\* C28: whenever runEvaluation terminates, normally or because an approach
\* phase threw, a cleanup of every case's cleanup spec has run after the
\* last sandbox execution of the run.
C28_CleanupOnEveryExit ==
    Terminated => \A i \in ApproachIndices : ExecutedIn(i) => CleanedAfter(i)

\* ---------------------------------------------------------------------
\* runEvaluation: the artifact namespace when a sandbox execution begins
\* ---------------------------------------------------------------------

\* every runCleanup call before the approach in progress returned after a
\* listing showed the artifact absent, or had nothing to clean; dOutcome
\* holds the calls of the latest cleanupAll, which decide what the
\* approach finds
CleanupsObservedAbsent ==
    \A c \in Cases : dOutcome[c] \in {"absent", "gone", "nospec"}

\* executeMongoDBCode starts the generated code of case c in this step
ExecutionBegins(c) == scExec'[c] > scExec[c]

\* C27: whenever a sandbox execution for a case begins, the artifact named in
\* that case's cleanup spec does not exist and no delete of it is in flight,
\* provided every earlier cleanup call returned by observing the artifact
\* absent rather than by timeout; for any number of cases, cases naming the
\* same artifact included.
C27_NamespaceFreeAtExecution ==
    [][\A c \in Cases :
          ( /\ ExecutionBegins(c)
            /\ cases[c].cleanup # NoCleanup
            /\ CleanupsObservedAbsent ) =>
               ext[cases[c].cleanup] = "absent"]_vars

=============================================================================
